---- MODULE Spec2Model ----
(***************************************************************************)
(* The media post-processing pipeline of app/core/engine.py                *)
(* (ProcessingEngine.process), its four operations                         *)
(* (app/core/operations/*.py) and the job layer that calls it              *)
(* (app/main.py, process_job).                                             *)
(*                                                                         *)
(* Numbers of the source that are floats (strength, crop_margin,           *)
(* saturation, ...) are integers in thousandths here: 0.5 is 500.          *)
(* A file's content is a record [kind, ver]: kind is what a stream probe   *)
(* of it answers ("video", "audio", or "bad" when it cannot be probed) and *)
(* ver is the sequence of filter transforms applied to the caller's input  *)
(* to obtain it (<<>> is the input itself, so a pass-through copy keeps    *)
(* ver).                                                                   *)
(***************************************************************************)
EXTENDS Integers, Sequences, FiniteSets, TLC

\* Longest operations list a request carries.
MaxOps == 2

--------------------------------------------------------------------------
(* Dictionaries *)

EmptyDict == [k \in {} |-> 0]

\* dict.get(key, default)
Get(d, k, default) == IF k \in DOMAIN d THEN d[k] ELSE default

\* dict.update(other): other wins key by key
Update(d, other) ==
    [k \in DOMAIN d \cup DOMAIN other |-> IF k \in DOMAIN other THEN other[k] ELSE d[k]]

Min(a, b) == IF a <= b THEN a ELSE b
Max(a, b) == IF a >= b THEN a ELSE b

--------------------------------------------------------------------------
(* The operations registry and the request alphabet *)

KnownOps == {"denoise", "stabilize", "color_correct", "artifact_removal"}

\* Names a request may carry: the known ones and one the engine does not know.
OpNames == KnownOps \cup {"sharpen"}

\* Operations whose presence triggers scene analysis.
SceneOps == {"denoise", "color_correct"}

RECURSIVE SeqsUpTo(_, _)
SeqsUpTo(S, n) ==
    IF n = 0 THEN {<<>>}
    ELSE LET shorter == SeqsUpTo(S, n - 1)
         IN  shorter \cup {Append(s, x) : s \in {t \in shorter : Len(t) = n - 1}, x \in S}

\* The built-in preset tables of the engine.
presets ==
    [standard |->
        [denoise          |-> [strength |-> 500, preserve_details |-> TRUE],
         stabilize        |-> [strength |-> 500, crop_margin |-> 100],
         color_correct    |-> [white_balance |-> "auto", saturation |-> 1000, contrast |-> 1000],
         artifact_removal |-> [compression |-> TRUE, banding |-> TRUE]],
     light |->
        [denoise          |-> [strength |-> 300, preserve_details |-> TRUE],
         stabilize        |-> [strength |-> 300, crop_margin |-> 50],
         color_correct    |-> [white_balance |-> "auto", saturation |-> 950, contrast |-> 950],
         artifact_removal |-> [compression |-> TRUE, banding |-> FALSE]],
     heavy |->
        [denoise          |-> [strength |-> 800, preserve_details |-> FALSE],
         stabilize        |-> [strength |-> 800, crop_margin |-> 150],
         color_correct    |-> [white_balance |-> "auto", saturation |-> 1100, contrast |-> 1200],
         artifact_removal |-> [compression |-> TRUE, banding |-> TRUE, moire |-> TRUE]],
     web |->
        [denoise          |-> [strength |-> 400, preserve_details |-> TRUE],
         color_correct    |-> [white_balance |-> "auto", saturation |-> 1100, contrast |-> 1100],
         artifact_removal |-> [compression |-> TRUE]]]

\* The dict objects a call of _get_operation_parameters can reach, by name:
\* the caller's override dicts (custom_params[op] is named op), the entry
\* presets[preset][operation_name] of the table the call has built ("entry")
\* and the dict the call returns ("params", not yet made).
ResolveHeap(entry, custom_params) ==
    [o \in DOMAIN custom_params \cup {"entry", "params"} |->
        IF o = "entry" THEN entry
        ELSE IF o = "params" THEN EmptyDict
        ELSE custom_params[o]]

\* target = source.copy(): target names a dict of its own with source's items.
DictCopy(heap, target, source) == [heap EXCEPT ![target] = heap[source]]

\* target.update(other): writes the dict that target names.
DictUpdate(heap, target, other) ==
    [heap EXCEPT ![target] = Update(heap[target], heap[other])]

\* What a call leaves behind: the dict it returns, the preset whose table
\* it read, and what the caller's overrides map and the preset table hold
\* once it has returned.
Resolved(heap, returned, table, p, operation_name, custom_params) ==
    [params        |-> heap[returned],
     raised        |-> FALSE,
     preset        |-> p,
     custom_params |-> [o \in DOMAIN custom_params |-> heap[o]],
     presets       |-> [table EXCEPT ![p][operation_name] = heap["entry"]]]

\* ResolveCall without the fallback for an unknown preset: presets[preset]
\* raises KeyError.
ResolveCallNoFallback(operation_name, preset, custom_params) ==
    LET table == presets
    IN  IF preset \notin DOMAIN table
        THEN [params |-> EmptyDict, raised |-> TRUE, preset |-> preset,
              custom_params |-> custom_params, presets |-> table]
        ELSE IF operation_name \notin DOMAIN table[preset]
        THEN [params |-> EmptyDict, raised |-> FALSE, preset |-> preset,
              custom_params |-> custom_params, presets |-> table]
        ELSE LET h0 == ResolveHeap(table[preset][operation_name], custom_params)
                 h1 == DictCopy(h0, "params", "entry")
                 h2 == IF DOMAIN custom_params # {} /\ operation_name \in DOMAIN custom_params
                       THEN DictUpdate(h1, "params", operation_name)
                       ELSE h1
             IN  Resolved(h2, "params", table, preset, operation_name, custom_params)

\* ResolveCall that takes the entry of preset standard when the preset in
\* force defines none for the operation.
ResolveCallStandardEntry(operation_name, preset, custom_params) ==
    LET table == presets
        p == IF preset \notin DOMAIN table THEN "standard" ELSE preset
        q == IF operation_name \notin DOMAIN table[p] THEN "standard" ELSE p
    IN  IF operation_name \notin DOMAIN table[q]
        THEN [params |-> EmptyDict, raised |-> FALSE, preset |-> q,
              custom_params |-> custom_params, presets |-> table]
        ELSE LET h0 == ResolveHeap(table[q][operation_name], custom_params)
                 h1 == DictCopy(h0, "params", "entry")
                 h2 == IF DOMAIN custom_params # {} /\ operation_name \in DOMAIN custom_params
                       THEN DictUpdate(h1, "params", operation_name)
                       ELSE h1
             IN  Resolved(h2, "params", table, q, operation_name, custom_params)

\* ResolveCall that merges into the caller's dict: the preset's values are
\* filled in under the override's and the override dict itself is returned.
ResolveCallMergeIntoOverride(operation_name, preset, custom_params) ==
    LET table == presets
        p == IF preset \notin DOMAIN table THEN "standard" ELSE preset
    IN  IF operation_name \notin DOMAIN table[p]
        THEN [params |-> EmptyDict, raised |-> FALSE, preset |-> p,
              custom_params |-> custom_params, presets |-> table]
        ELSE LET h0 == ResolveHeap(table[p][operation_name], custom_params)
                 merge == DOMAIN custom_params # {} /\ operation_name \in DOMAIN custom_params
                 h1 == IF merge
                       THEN [h0 EXCEPT ![operation_name] = Update(h0["entry"], h0[operation_name])]
                       ELSE DictCopy(h0, "params", "entry")
             IN  Resolved(h1, IF merge THEN operation_name ELSE "params",
                          table, p, operation_name, custom_params)

\* _get_operation_parameters(operation_name, preset, custom_params), with what
\* it writes. The optional custom_params: None and {} are both falsy and are
\* both EmptyDict here. The table is a literal the call builds anew.
ResolveCall(operation_name, preset, custom_params) ==
    LET table == presets
        p == IF preset \notin DOMAIN table THEN "standard" ELSE preset
    IN  IF operation_name \notin DOMAIN table[p]
        THEN [params |-> EmptyDict, raised |-> FALSE, preset |-> p,
              custom_params |-> custom_params, presets |-> table]
        ELSE LET h0 == ResolveHeap(table[p][operation_name], custom_params)
                 h1 == DictCopy(h0, "params", "entry")
                 h2 == IF DOMAIN custom_params # {} /\ operation_name \in DOMAIN custom_params
                       THEN DictUpdate(h1, "params", operation_name)
                       ELSE h1
             IN  Resolved(h2, "params", table, p, operation_name, custom_params)

\* The dict _get_operation_parameters returns.
GetOperationParameters(operation_name, preset, custom_params) ==
    ResolveCall(operation_name, preset, custom_params).params

--------------------------------------------------------------------------
(* Files and the transform executor *)

InputPath == "input"

\* os.path.join(temp_dir, f"{op_name}_output{ext}")
IntermediateFile(op_name) == "temp_dir/" \o op_name \o "_output"

\* os.path.join(temp_dir, f"final_output{ext}")
FinalOutput == "temp_dir/final_output"

TempPaths == {IntermediateFile(op) : op \in KnownOps} \cup {FinalOutput}

Paths == {InputPath} \cup TempPaths

NoFile == [kind |-> "none", ver |-> <<>>]

\* What a failed transform may leave at its output path.
Junk == [kind |-> "bad", ver |-> <<>>]

Exists(fs, path) == fs[path] # NoFile

\* ffmpeg.probe(path), reduced to what the operations read from it: "video" when a
\* video stream is present, "audio" when none is, "fail" when the probe raises.
Probe(fs, path) == IF fs[path].kind \in {"video", "audio"} THEN fs[path].kind ELSE "fail"

\* One ffmpeg run reading input_path and writing output_path with
\* overwrite_output=True. tag is <<op>> for a filter run and <<>> for c="copy".
\* how is the run's fate: "ok", "fail" (nothing written) or "partial" (it fails
\* after writing part of the output). The run cannot succeed when its input is
\* missing, and ffmpeg refuses to run, before it writes, when the output path is
\* the input path.
Ffmpeg(fs, input_path, output_path, tag, how) ==
    IF ~Exists(fs, input_path) \/ input_path = output_path
    THEN [ok |-> FALSE, fs |-> fs]
    ELSE CASE how = "ok" ->
                [ok |-> TRUE,
                 fs |-> [fs EXCEPT ![output_path] =
                            [kind |-> fs[input_path].kind, ver |-> fs[input_path].ver \o tag]]]
           [] how = "partial" ->
                [ok |-> FALSE, fs |-> [fs EXCEPT ![output_path] = Junk]]
           [] OTHER ->
                [ok |-> FALSE, fs |-> fs]

\* What an operation's apply leaves behind: its result dict (raised: the call
\* raised instead of returning one), the files, and what it ran: filter is the
\* run of the try block of the _apply_* / _denoise_* helper, copy the
\* pass-through copy (of a skip branch or of a fallback), mkdtemp whether it
\* took a directory from tempfile.mkdtemp(), ran the parameters and filter
\* values the helper computed for its run (EmptyDict when no helper ran).
Outcome(result, fs, filter, copy, mkdtemp) ==
    [result |-> result, raised |-> FALSE, fs |-> fs,
     filter |-> filter, copy |-> copy, mkdtemp |-> mkdtemp, ran |-> EmptyDict]

Raise(fs, copy) ==
    [result |-> [status |-> "raised"], raised |-> TRUE, fs |-> fs,
     filter |-> "none", copy |-> copy, mkdtemp |-> FALSE, ran |-> EmptyDict]

\* TryTransform with the fallback's outcome dropped: the copy is made and the
\* step is reported as a success.
TryTransformSwallow(fs, input_path, output_path, tag, run, copy, success, mkdtemp) ==
    LET main == Ffmpeg(fs, input_path, output_path, tag, run)
        fallback == Ffmpeg(main.fs, input_path, output_path, <<>>, copy)
    IN  IF main.ok
        THEN [result |-> success, raised |-> FALSE, fs |-> main.fs,
              filter |-> "ok", copy |-> "none", mkdtemp |-> mkdtemp,
              ran |-> success.parameters]
        ELSE [result |-> success, raised |-> FALSE, fs |-> fallback.fs,
              filter |-> "fail", copy |-> IF fallback.ok THEN "ok" ELSE "fail",
              mkdtemp |-> mkdtemp, ran |-> success.parameters]

\* The try / except Exception / try copy / except chain that ends every
\* _apply_* and _denoise_* helper: run the filter chain; when that raises, fall
\* back to copying the file.
TryTransform(fs, input_path, output_path, tag, run, copy, success, mkdtemp) ==
    LET main == Ffmpeg(fs, input_path, output_path, tag, run)
        fallback == Ffmpeg(main.fs, input_path, output_path, <<>>, copy)
        o == IF main.ok
             THEN Outcome(success, main.fs, "ok", "none", mkdtemp)
             ELSE IF fallback.ok
             THEN Outcome([status |-> "error", error |-> "ffmpeg error", fallback |-> "copy"],
                          fallback.fs, "fail", "ok", mkdtemp)
             ELSE Outcome([status |-> "failed", error |-> "ffmpeg error"],
                          fallback.fs, "fail", "fail", mkdtemp)
    IN  [o EXCEPT !.ran = success.parameters]

--------------------------------------------------------------------------
(* DenoiseOperation *)

\* DenoiseFilters with the strengths scaled to 0-100 and 0-70.
DenoiseFiltersPercent(strength, preserve_details, temporal) ==
    LET spatial_strength  == (strength * 100) \div 1000
        temporal_strength == (strength * 70) \div 1000
        tn == IF temporal /\ temporal_strength > 0
              THEN [tnlmeans |-> temporal_strength] ELSE EmptyDict
        sp == IF spatial_strength > 0
              THEN IF preserve_details
                   THEN [nlmeans |-> spatial_strength]
                   ELSE [hqdn3d |-> <<spatial_strength * 4, spatial_strength * 3>>]
              ELSE EmptyDict
    IN  Update(tn, sp)

\* DenoiseFilters with the strengths rounded to the nearest integer.
DenoiseFiltersRounded(strength, preserve_details, temporal) ==
    LET spatial_strength  == (strength * 10 + 500) \div 1000
        temporal_strength == (strength * 7 + 500) \div 1000
        tn == IF temporal /\ temporal_strength > 0
              THEN [tnlmeans |-> temporal_strength] ELSE EmptyDict
        sp == IF spatial_strength > 0
              THEN IF preserve_details
                   THEN [nlmeans |-> spatial_strength]
                   ELSE [hqdn3d |-> <<spatial_strength * 4, spatial_strength * 3>>]
              ELSE EmptyDict
    IN  Update(tn, sp)

\* The filter chain _denoise_video builds, as the filters it names with their
\* strengths; EmptyDict is the empty filter_str.
DenoiseFilters(strength, preserve_details, temporal) ==
    LET spatial_strength  == (strength * 10) \div 1000
        temporal_strength == (strength * 7) \div 1000
        tn == IF temporal /\ temporal_strength > 0
              THEN [tnlmeans |-> temporal_strength] ELSE EmptyDict
        sp == IF spatial_strength > 0
              THEN IF preserve_details
                   THEN [nlmeans |-> spatial_strength]
                   ELSE [hqdn3d |-> <<spatial_strength * 4, spatial_strength * 3>>]
              ELSE EmptyDict
    IN  Update(tn, sp)

DenoiseVideo(fs, input_path, output_path, strength, preserve_details, temporal, run, copy) ==
    LET filter_str == DenoiseFilters(strength, preserve_details, temporal)
    IN  TryTransform(fs, input_path, output_path,
                     IF filter_str # EmptyDict THEN <<"denoise">> ELSE <<>>,
                     run, copy,
                     [status |-> "success",
                      parameters |-> [strength |-> strength,
                                      preserve_details |-> preserve_details,
                                      temporal |-> temporal,
                                      applied_filters |-> filter_str]],
                     FALSE)

\* noise_reduction = strength * 0.3, written into the filter with three decimals.
DenoiseAudio(fs, input_path, output_path, strength, run, copy) ==
    TryTransform(fs, input_path, output_path, <<"denoise">>, run, copy,
                 [status |-> "success",
                  parameters |-> [strength |-> strength,
                                  applied_filter |-> [afftdn |-> (strength * 3 + 5) \div 10]]],
                 FALSE)

\* The strength DenoiseOperation.apply works with after the context adjustment.
DenoiseStrength(parameters, context) ==
    LET strength == Get(parameters, "strength", 500)
    IN  IF DOMAIN context # {} /\ "noise_assessment" \in DOMAIN context
        THEN LET noise_level == Get(context["noise_assessment"], "level", "medium")
             IN  IF noise_level = "high" THEN Min(1000, (strength * 15) \div 10)
                 ELSE IF noise_level = "low" THEN Max(100, (strength * 7) \div 10)
                 ELSE strength
        ELSE strength

DenoiseApply(fs, input_path, output_path, parameters, context, run, copy) ==
    LET strength         == DenoiseStrength(parameters, context)
        preserve_details == Get(parameters, "preserve_details", TRUE)
        temporal         == Get(parameters, "temporal", TRUE)
        media_type       == IF Probe(fs, input_path) = "fail" THEN "unknown"
                            ELSE Probe(fs, input_path)
        passthrough      == Ffmpeg(fs, input_path, output_path, <<>>, copy)
    IN  IF media_type = "video"
        THEN DenoiseVideo(fs, input_path, output_path, strength, preserve_details,
                          temporal, run, copy)
        ELSE IF media_type = "audio"
        THEN DenoiseAudio(fs, input_path, output_path, strength, run, copy)
        ELSE IF passthrough.ok
             THEN Outcome([status |-> "skipped", reason |-> "unknown_media_type"],
                          passthrough.fs, "none", "ok", FALSE)
             ELSE Raise(passthrough.fs, "fail")

--------------------------------------------------------------------------
(* StabilizeOperation *)

\* VideoCheck without the has_video test: every probed input goes on.
VideoCheckNoSkip(fs, input_path, output_path, copy) ==
    IF Probe(fs, input_path) = "fail"
    THEN [result |-> [status |-> "error", error |-> "probe error"], raised |-> FALSE,
          fs |-> fs, filter |-> "none", copy |-> "none", mkdtemp |-> FALSE,
          ran |-> EmptyDict]
    ELSE [result |-> [status |-> "go"], raised |-> FALSE,
          fs |-> fs, filter |-> "none", copy |-> "none", mkdtemp |-> FALSE,
          ran |-> EmptyDict]

\* The try / except around the probe that opens the apply of StabilizeOperation,
\* ColorCorrectionOperation and ArtifactRemovalOperation. It answers "go" when
\* the input has a video stream, and else the outcome apply returns with.
VideoCheck(fs, input_path, output_path, copy) ==
    LET passthrough == Ffmpeg(fs, input_path, output_path, <<>>, copy)
    IN  IF Probe(fs, input_path) = "fail"
        THEN Outcome([status |-> "error", error |-> "probe error"], fs, "none", "none", FALSE)
        ELSE IF Probe(fs, input_path) = "video"
        THEN Outcome([status |-> "go"], fs, "none", "none", FALSE)
        ELSE IF passthrough.ok
             THEN Outcome([status |-> "skipped", reason |-> "no_video_stream"],
                          passthrough.fs, "none", "ok", FALSE)
             ELSE Outcome([status |-> "error", error |-> "ffmpeg error"],
                          passthrough.fs, "none", "fail", FALSE)

\* StabilizeAdjust with the crop margin scaled but not capped.
StabilizeAdjustUncapped(parameters, context) ==
    LET strength    == Get(parameters, "strength", 500)
        crop_margin == Get(parameters, "crop_margin", 100)
    IN  IF DOMAIN context # {} /\ "motion_assessment" \in DOMAIN context
        THEN LET motion_level == Get(context["motion_assessment"], "camera_shake", "medium")
             IN  IF motion_level = "high"
                 THEN [strength    |-> Min(1000, (strength * 13) \div 10),
                       crop_margin |-> (crop_margin * 12) \div 10]
                 ELSE IF motion_level = "low"
                 THEN [strength |-> Max(100, (strength * 7) \div 10), crop_margin |-> crop_margin]
                 ELSE [strength |-> strength, crop_margin |-> crop_margin]
        ELSE [strength |-> strength, crop_margin |-> crop_margin]

\* strength and crop_margin after the context adjustment of StabilizeOperation.apply.
StabilizeAdjust(parameters, context) ==
    LET strength    == Get(parameters, "strength", 500)
        crop_margin == Get(parameters, "crop_margin", 100)
    IN  IF DOMAIN context # {} /\ "motion_assessment" \in DOMAIN context
        THEN LET motion_level == Get(context["motion_assessment"], "camera_shake", "medium")
             IN  IF motion_level = "high"
                 THEN [strength    |-> Min(1000, (strength * 13) \div 10),
                       crop_margin |-> Min(250, (crop_margin * 12) \div 10)]
                 ELSE IF motion_level = "low"
                 THEN [strength |-> Max(100, (strength * 7) \div 10), crop_margin |-> crop_margin]
                 ELSE [strength |-> strength, crop_margin |-> crop_margin]
        ELSE [strength |-> strength, crop_margin |-> crop_margin]

ApplyVidstab(fs, input_path, output_path, strength, crop_margin, run, copy) ==
    LET shakiness == (strength * 10) \div 1000
        smoothing == (strength * 100) \div 1000
    IN  TryTransform(fs, input_path, output_path, <<"stabilize">>, run, copy,
                     [status |-> "success",
                      parameters |-> [strength |-> strength, crop_margin |-> crop_margin,
                                      method |-> "vidstab", shakiness |-> shakiness,
                                      smoothing |-> smoothing, zoom |-> 1000 + crop_margin]],
                     TRUE)

ApplyDeshake(fs, input_path, output_path, strength, crop_margin, run, copy) ==
    LET edge == (crop_margin * 100) \div 1000
    IN  TryTransform(fs, input_path, output_path, <<"stabilize">>, run, copy,
                     [status |-> "success",
                      parameters |-> [strength |-> strength, crop_margin |-> crop_margin,
                                      method |-> "deshake", edge |-> edge]],
                     FALSE)

StabilizeApply(fs, input_path, output_path, parameters, context, run, copy) ==
    LET check    == VideoCheck(fs, input_path, output_path, copy)
        adjusted == StabilizeAdjust(parameters, context)
        method   == Get(parameters, "method", "vidstab")
    IN  IF check.result.status # "go" THEN check
        ELSE IF method = "deshake"
        THEN ApplyDeshake(fs, input_path, output_path, adjusted.strength,
                          adjusted.crop_margin, run, copy)
        ELSE ApplyVidstab(fs, input_path, output_path, adjusted.strength,
                          adjusted.crop_margin, run, copy)

--------------------------------------------------------------------------
(* ColorCorrectionOperation *)

\* ColorAdjust with the saturation scaled relative to its own value:
\* max(saturation, saturation * 1.2) and min(saturation, saturation * 0.8).
ColorAdjustRelative(parameters, context) ==
    LET white_balance == Get(parameters, "white_balance", "auto")
        saturation    == Get(parameters, "saturation", 1000)
    IN  IF DOMAIN context # {} /\ "color_characteristics" \in DOMAIN context
        THEN LET color_temp == Get(context["color_characteristics"], "temperature", "neutral")
                 color_cast == Get(context["color_characteristics"], "color_cast", "None")
             IN  [white_balance |->
                      IF white_balance = "auto" /\ color_temp = "warm" THEN "5600K"
                      ELSE IF white_balance = "auto" /\ color_temp = "cool" THEN "3200K"
                      ELSE white_balance,
                  saturation |->
                      IF color_cast = "desaturated"
                      THEN Max(saturation, (saturation * 12) \div 10)
                      ELSE IF color_cast = "oversaturated"
                      THEN Min(saturation, (saturation * 8) \div 10)
                      ELSE saturation]
        ELSE [white_balance |-> white_balance, saturation |-> saturation]

\* white_balance and saturation after the context adjustment of
\* ColorCorrectionOperation.apply.
ColorAdjust(parameters, context) ==
    LET white_balance == Get(parameters, "white_balance", "auto")
        saturation    == Get(parameters, "saturation", 1000)
    IN  IF DOMAIN context # {} /\ "color_characteristics" \in DOMAIN context
        THEN LET color_temp == Get(context["color_characteristics"], "temperature", "neutral")
                 color_cast == Get(context["color_characteristics"], "color_cast", "None")
             IN  [white_balance |->
                      IF white_balance = "auto" /\ color_temp = "warm" THEN "5600K"
                      ELSE IF white_balance = "auto" /\ color_temp = "cool" THEN "3200K"
                      ELSE white_balance,
                  saturation |->
                      IF color_cast = "desaturated" THEN Max(1000, (saturation * 12) \div 10)
                      ELSE IF color_cast = "oversaturated" THEN Min(1000, (saturation * 8) \div 10)
                      ELSE saturation]
        ELSE [white_balance |-> white_balance, saturation |-> saturation]

\* The filter chain _apply_color_correction builds.
ColorFilters(white_balance, saturation, contrast, brightness, gamma, highlights, shadows) ==
    LET wb == IF white_balance = "auto" THEN [eq_auto |-> TRUE]
              ELSE IF white_balance = "3200K" THEN [colortemperature |-> 3200]
              ELSE IF white_balance = "5600K" THEN [colortemperature |-> 5600]
              ELSE EmptyDict
        b  == IF brightness # 1000
              THEN [brightness |-> ((brightness - 1000) * 5) \div 10] ELSE EmptyDict
        c  == IF contrast # 1000 THEN [contrast |-> contrast] ELSE EmptyDict
        g  == IF gamma # 1000 THEN [gamma |-> gamma] ELSE EmptyDict
        eq_params == Update(Update(b, c), g)
        eq == IF eq_params # EmptyDict THEN [eq |-> eq_params] ELSE EmptyDict
        sat == IF saturation # 1000 THEN [colorchannelmixer |-> saturation] ELSE EmptyDict
        sh == IF shadows # 0
              THEN [shadow_y |-> Max(0, Min(300, 150 + (shadows * 150) \div 1000))]
              ELSE EmptyDict
        hl == IF highlights # 0
              THEN [highlight_y |-> Max(700, Min(1000, 850 + (highlights * 150) \div 1000))]
              ELSE EmptyDict
        curves == IF highlights # 0 \/ shadows # 0
                  THEN [curves |-> Update(sh, hl)] ELSE EmptyDict
    IN  Update(Update(Update(wb, eq), sat), curves)

ApplyColorCorrection(fs, input_path, output_path, white_balance, saturation, contrast, brightness, gamma, highlights, shadows, run, copy) ==
    LET filter_str == ColorFilters(white_balance, saturation, contrast, brightness,
                                   gamma, highlights, shadows)
    IN  TryTransform(fs, input_path, output_path,
                     IF filter_str # EmptyDict THEN <<"color_correct">> ELSE <<>>,
                     run, copy,
                     [status |-> "success",
                      parameters |-> [white_balance |-> white_balance,
                                      saturation |-> saturation, contrast |-> contrast,
                                      brightness |-> brightness, gamma |-> gamma,
                                      highlights |-> highlights, shadows |-> shadows,
                                      applied_filters |-> filter_str]],
                     FALSE)

ColorCorrectionApply(fs, input_path, output_path, parameters, context, run, copy) ==
    LET check    == VideoCheck(fs, input_path, output_path, copy)
        adjusted == ColorAdjust(parameters, context)
    IN  IF check.result.status # "go" THEN check
        ELSE ApplyColorCorrection(fs, input_path, output_path,
                                  adjusted.white_balance, adjusted.saturation,
                                  Get(parameters, "contrast", 1000),
                                  Get(parameters, "brightness", 1000),
                                  Get(parameters, "gamma", 1000),
                                  Get(parameters, "highlights", 0),
                                  Get(parameters, "shadows", 0), run, copy)

--------------------------------------------------------------------------
(* ArtifactRemovalOperation *)

\* The removal toggles after the context adjustment of ArtifactRemovalOperation.apply.
\* The artifacts section of the context is a set here.
ArtifactToggles(parameters, context) ==
    LET artifacts == IF DOMAIN context # {} /\ "artifacts" \in DOMAIN context
                     THEN context["artifacts"] ELSE {}
    IN  [compression     |-> Get(parameters, "compression", TRUE) \/ "compression" \in artifacts,
         banding         |-> Get(parameters, "banding", FALSE) \/ "banding" \in artifacts,
         moire           |-> Get(parameters, "moire", FALSE) \/ "moire" \in artifacts,
         rolling_shutter |-> Get(parameters, "rolling_shutter", FALSE)
                                 \/ "rolling_shutter" \in artifacts]

\* The filter chain _apply_artifact_removal builds.
ArtifactFilters(remove_compression, remove_banding, remove_moire, fix_rolling_shutter, strength) ==
    LET pp == IF remove_compression THEN [pp |-> TRUE] ELSE EmptyDict
        deband == IF remove_banding
                  THEN [deband |-> [threshold |-> (strength * 4) \div 1000 + 1,
                                    range     |-> (strength * 15) \div 1000 + 1]]
                  ELSE EmptyDict
        smartblur == IF remove_moire THEN [smartblur |-> strength * 2] ELSE EmptyDict
        dejudder  == IF fix_rolling_shutter THEN [dejudder |-> 2] ELSE EmptyDict
    IN  Update(Update(Update(pp, deband), smartblur), dejudder)

ApplyArtifactRemoval(fs, input_path, output_path, remove_compression, remove_banding, remove_moire, fix_rolling_shutter, strength, run, copy) ==
    LET filter_str == ArtifactFilters(remove_compression, remove_banding, remove_moire,
                                      fix_rolling_shutter, strength)
    IN  TryTransform(fs, input_path, output_path,
                     IF filter_str # EmptyDict THEN <<"artifact_removal">> ELSE <<>>,
                     run, copy,
                     [status |-> "success",
                      parameters |-> [compression |-> remove_compression,
                                      banding |-> remove_banding, moire |-> remove_moire,
                                      rolling_shutter |-> fix_rolling_shutter,
                                      strength |-> strength,
                                      applied_filters |-> filter_str]],
                     FALSE)

ArtifactRemovalApply(fs, input_path, output_path, parameters, context, run, copy) ==
    LET check   == VideoCheck(fs, input_path, output_path, copy)
        toggles == ArtifactToggles(parameters, context)
    IN  IF check.result.status # "go" THEN check
        ELSE ApplyArtifactRemoval(fs, input_path, output_path, toggles.compression,
                                  toggles.banding, toggles.moire, toggles.rolling_shutter,
                                  Get(parameters, "strength", 500), run, copy)

\* self.operations[op_name].apply(...)
Apply(op_name, fs, input_path, output_path, parameters, context, run, copy) ==
    CASE op_name = "denoise" ->
            DenoiseApply(fs, input_path, output_path, parameters, context, run, copy)
      [] op_name = "stabilize" ->
            StabilizeApply(fs, input_path, output_path, parameters, context, run, copy)
      [] op_name = "color_correct" ->
            ColorCorrectionApply(fs, input_path, output_path, parameters, context, run, copy)
      [] OTHER ->
            ArtifactRemovalApply(fs, input_path, output_path, parameters, context, run, copy)

--------------------------------------------------------------------------
(* One request: process_job calling ProcessingEngine.process *)

VARIABLES
    operations,         \* request.operations
    preset,             \* request.preset
    parameters,         \* request.parameters
    fs,                 \* the files: path -> content or NoFile
    temp_dir,           \* whether the TemporaryDirectory of the run exists
    scratch,            \* the directories taken from tempfile.mkdtemp() that exist
    pc,                 \* where the request is
    idx,                \* position of the for loop in operations
    current_file,       \* the cursor
    file_info,          \* _get_file_info(input_file)
    scene_analysis,     \* the context handed to every operation
    operation_results,  \* the dict of results, as its (key, value) pairs in order
    result,             \* the ProcessingResult returned, EmptyDict before
    provider_calls,     \* calls of gemini_client.analyze_media_content so far
    calls,              \* log of the operation.apply calls made
    job_status,         \* the job's status in the job tracker
    stored              \* what store_file wrote to the output location

\* The state of one request.
engineVars == <<operations, preset, parameters, fs, temp_dir, scratch, pc, idx, current_file,
                file_info, scene_analysis, operation_results, result, provider_calls, calls,
                job_status, stored>>

\* Parameter resolution called on its own (_get_operation_parameters).
VARIABLES
    custom_params,      \* the caller's overrides map, as it is now
    resolutions         \* log of the calls of _get_operation_parameters made

resolveVars == <<custom_params, resolutions>>

\* The preset store (ConfigManager of app/core/config.py).
VARIABLES
    use_firestore,      \* self.use_firestore
    default_presets,    \* self.default_presets: preset id -> preset data
    presets_collection, \* the documents of the Firestore collection, by id
    store_returned      \* the last call of the store and what it returned

storeVars == <<use_firestore, default_presets, presets_collection, store_returned>>

\* An operation's apply called on its own.
VARIABLES
    apply_args,         \* the operation, and the parameters and context given to apply
    apply_result,       \* the result dict apply returned, EmptyDict before
    apply_ran           \* the parameters and filter values its transform was run with

applyVars == <<apply_args, apply_result, apply_ran>>

\* Denoise called on its own with one strength and then a larger one, to
\* compare its filter scales.
VARIABLES
    scale_args,         \* the medium, the flags and the two strengths to call it with
    scale_log           \* what the filter was run with, call by call

scaleVars == <<scale_args, scale_log>>

\* The retention policy of the cleanup tool (RetentionPolicy of policy/retention_rules.py).
VARIABLES
    policy_given,       \* the config handed to RetentionPolicy(config)
    policy_config,      \* self.config, EmptyDict before construction
    policy_files,       \* the list handed to apply_policy, as its dicts are now
    policy_scanned,     \* the same list as the scanner made it
    policy_returned     \* what apply_policy returned, as [done, files]

retentionVars == <<policy_given, policy_config, policy_files, policy_scanned, policy_returned>>

\* The executor of the cleanup tool (CleanupExecutor of executor/cleanup_operations.py).
VARIABLES
    disk,               \* what is on disk at each path the executor may be given
    executor_config,    \* self.config of the executor
    execute_args,       \* the files and dry_run given to execute, and the disk as it was then
    execute_result      \* the CleanupResult execute returned, EmptyDict before

cleanupVars == <<disk, executor_config, execute_args, execute_result>>

\* Requests to cancel the job (cancel_job of app/main.py).
VARIABLES
    cancel_pc,          \* where the cancel request under way is: "idle" when there is none
    cancels             \* cancel requests answered so far

jobVars == <<cancel_pc, cancels>>

\* Several process calls running at once on one filesystem.
VARIABLES
    conc_args,          \* what the calls were given and the fates of their steps
    conc_fs,            \* the files, shared by the calls: path -> content or NoFile
    conc_pc,            \* where each call is
    conc_idx,           \* position of each call's for loop
    conc_cursor,        \* each call's current_file
    conc_info,          \* each call's file_info
    conc_results,       \* each call's operation_results
    conc_result,        \* what each call returned, EmptyDict before
    conc_reads,         \* the paths each call has read
    conc_writes         \* the paths each call has written, renamed or deleted

concVars == <<conc_args, conc_fs, conc_pc, conc_idx, conc_cursor, conc_info, conc_results, conc_result, conc_reads, conc_writes>>

vars == <<engineVars, resolveVars, storeVars, applyVars, scaleVars, retentionVars, cleanupVars, jobVars, concVars>>

\* The variables each part of the model leaves alone.
notEngine == <<resolveVars, storeVars, applyVars, scaleVars, retentionVars, cleanupVars,
               jobVars, concVars>>
notResolve == <<engineVars, storeVars, applyVars, scaleVars, retentionVars, cleanupVars,
                jobVars, concVars>>
notStore == <<engineVars, resolveVars, applyVars, scaleVars, retentionVars, cleanupVars,
              jobVars, concVars>>
notApply == <<engineVars, resolveVars, storeVars, scaleVars, retentionVars, cleanupVars,
              jobVars, concVars>>
notScale == <<engineVars, resolveVars, storeVars, applyVars, retentionVars, cleanupVars,
              jobVars, concVars>>
notRetention == <<engineVars, resolveVars, storeVars, applyVars, scaleVars, cleanupVars,
                  jobVars, concVars>>
notCleanup == <<engineVars, resolveVars, storeVars, applyVars, scaleVars, retentionVars,
                jobVars, concVars>>
notJob == <<engineVars, resolveVars, storeVars, applyVars, scaleVars, retentionVars,
            cleanupVars, concVars>>
notConc == <<engineVars, resolveVars, storeVars, applyVars, scaleVars, retentionVars,
             cleanupVars, jobVars>>

\* No request under way.
EngineIdle ==
    /\ operations = <<>>
    /\ preset = "standard"
    /\ parameters = EmptyDict
    /\ fs = [p \in Paths |-> NoFile]
    /\ temp_dir = FALSE
    /\ scratch = {}
    /\ pc = "idle"
    /\ idx = 1
    /\ current_file = InputPath
    /\ file_info = EmptyDict
    /\ scene_analysis = EmptyDict
    /\ operation_results = <<>>
    /\ result = EmptyDict
    /\ provider_calls = 0
    /\ calls = <<>>
    /\ job_status = "none"
    /\ stored = NoFile

\* No parameter resolution made on its own.
ResolveIdle ==
    /\ custom_params = EmptyDict
    /\ resolutions = <<>>

\* No preset store in use.
StoreIdle ==
    /\ use_firestore = FALSE
    /\ default_presets = EmptyDict
    /\ presets_collection = EmptyDict
    /\ store_returned = EmptyDict

\* No operation called on its own.
ApplyIdle ==
    /\ apply_args = EmptyDict
    /\ apply_result = EmptyDict
    /\ apply_ran = EmptyDict

\* No Denoise call compared.
ScaleIdle ==
    /\ scale_args = EmptyDict
    /\ scale_log = <<>>

\* No retention policy in use.
RetentionIdle ==
    /\ policy_given = EmptyDict
    /\ policy_config = EmptyDict
    /\ policy_files = <<>>
    /\ policy_scanned = <<>>
    /\ policy_returned = [done |-> FALSE, files |-> <<>>]

\* No cleanup executor in use.
CleanupIdle ==
    /\ disk = EmptyDict
    /\ executor_config = EmptyDict
    /\ execute_args = EmptyDict
    /\ execute_result = EmptyDict

\* No cancel request made.
JobIdle ==
    /\ cancel_pc = "idle"
    /\ cancels = 0

\* No concurrent calls.
ConcIdle ==
    /\ conc_args = EmptyDict
    /\ conc_fs = EmptyDict
    /\ conc_pc = EmptyDict
    /\ conc_idx = EmptyDict
    /\ conc_cursor = EmptyDict
    /\ conc_info = EmptyDict
    /\ conc_results = EmptyDict
    /\ conc_result = EmptyDict
    /\ conc_reads = EmptyDict
    /\ conc_writes = EmptyDict

\* Preset identifiers a request may name: the engine's built-ins and an unknown one.
PresetIds == DOMAIN presets \cup {"nonexistent"}

\* The parameters a request may carry: none, or overrides that select the other
\* stabilization method and make the other three filter chains empty.
Overrides ==
    {EmptyDict,
     [stabilize        |-> [method |-> "deshake"],
      denoise          |-> [strength |-> 50],
      color_correct    |-> [white_balance |-> "none", saturation |-> 1000, contrast |-> 1000],
      artifact_removal |-> [compression |-> FALSE, banding |-> FALSE, moire |-> FALSE]]}

\* What the caller's input file may be: a video, an audio-only file, or a file
\* that cannot be probed. It exists.
InputKinds == {"video", "audio", "bad"}

RunFates == {"ok", "fail", "partial"}
CopyFates == {"ok", "fail"}

\* What the scene-context provider may answer: an error-tagged result, or an
\* analysis.
CtxError == [error |-> "analysis failed"]
CtxHigh ==
    [noise_assessment      |-> [level |-> "high"],
     motion_assessment     |-> [camera_shake |-> "high"],
     color_characteristics |-> [temperature |-> "warm", color_cast |-> "desaturated"],
     artifacts             |-> {"banding", "moire"}]
CtxLow ==
    [noise_assessment      |-> [level |-> "low"],
     motion_assessment     |-> [camera_shake |-> "low"],
     color_characteristics |-> [temperature |-> "cool", color_cast |-> "oversaturated"],
     artifacts             |-> {}]
ProviderAnswers == {CtxError, CtxHigh, CtxLow}

\* operation_results[op_name] = result on a dict that keeps insertion order.
DictSet(d, k, v) ==
    IF \E i \in 1..Len(d) : d[i][1] = k
    THEN [i \in 1..Len(d) |-> IF d[i][1] = k THEN <<k, v>> ELSE d[i]]
    ELSE Append(d, <<k, v>>)

Keys(d) == [i \in 1..Len(d) |-> d[i][1]]

\* TemporaryDirectory.__exit__: the directory and all it holds are removed.
Cleanup(f) == [p \in Paths |-> IF p \in TempPaths THEN NoFile ELSE f[p]]

Init ==
    /\ operations \in SeqsUpTo(OpNames, MaxOps)
    /\ preset \in PresetIds
    /\ parameters \in Overrides
    /\ \E kind \in InputKinds :
          fs = [p \in Paths |-> IF p = InputPath THEN [kind |-> kind, ver |-> <<>>] ELSE NoFile]
    /\ temp_dir = FALSE
    /\ scratch = {}
    /\ pc = "queued"
    /\ idx = 1
    /\ current_file = InputPath
    /\ file_info = EmptyDict
    /\ scene_analysis = EmptyDict
    /\ operation_results = <<>>
    /\ result = EmptyDict
    /\ provider_calls = 0
    /\ calls = <<>>
    /\ job_status = "queued"
    /\ stored = NoFile
    /\ ResolveIdle
    /\ StoreIdle
    /\ ApplyIdle
    /\ ScaleIdle
    /\ RetentionIdle
    /\ CleanupIdle
    /\ JobIdle
    /\ ConcIdle

\* process_job up to the call of process.
StartJob ==
    /\ pc = "queued"
    /\ job_status' = "processing"
    /\ pc' = "called"
    /\ UNCHANGED <<operations, preset, parameters, fs, temp_dir, scratch, idx, current_file,
                   file_info, scene_analysis, operation_results, result, provider_calls,
                   calls, stored>>
    /\ UNCHANGED notEngine

\* process: the temporary directory is created and the input is probed.
Begin ==
    /\ pc = "called"
    /\ temp_dir' = TRUE
    /\ current_file' = InputPath
    /\ file_info' = IF Probe(fs, InputPath) = "fail" THEN [error |-> "probe error"]
                    ELSE [streams |-> Probe(fs, InputPath)]
    /\ pc' = "scene"
    /\ UNCHANGED <<operations, preset, parameters, fs, scratch, idx, scene_analysis,
                   operation_results, result, provider_calls, calls, job_status, stored>>
    /\ UNCHANGED notEngine

\* NeedsSceneAnalysis that asks for the analysis for any known operation.
NeedsSceneAnalysisAnyOp(ops) == \E i \in 1..Len(ops) : ops[i] \in KnownOps

\* process: any(op in ["denoise", "color_correct"] for op in operations)
NeedsSceneAnalysis(ops) == \E i \in 1..Len(ops) : ops[i] \in SceneOps

\* AnalyzeScene without the try / except of _analyze_scene: a failure of the
\* frame extraction leaves process as an exception.
AnalyzeSceneUncaught ==
    /\ pc = "scene"
    /\ NeedsSceneAnalysis(operations)
    /\ \E framed \in BOOLEAN, answer \in ProviderAnswers :
          IF framed
          THEN /\ scratch' = scratch \cup {<<"frames", 0>>}
               /\ provider_calls' = provider_calls + 1
               /\ scene_analysis' = answer
               /\ pc' = "loop"
               /\ UNCHANGED <<fs, temp_dir>>
          ELSE /\ fs' = Cleanup(fs)
               /\ temp_dir' = FALSE
               /\ pc' = "raised"
               /\ UNCHANGED <<scratch, provider_calls, scene_analysis>>
    /\ UNCHANGED <<operations, preset, parameters, idx, current_file, file_info,
                   operation_results, result, calls, job_status, stored>>
    /\ UNCHANGED notEngine

\* process: scene_analysis = self._analyze_scene(input_file). _extract_frames
\* takes a directory from mkdtemp and the provider is called with the frames;
\* framed = FALSE is mkdtemp raising, which _analyze_scene catches.
AnalyzeScene ==
    /\ pc = "scene"
    /\ NeedsSceneAnalysis(operations)
    /\ \E framed \in BOOLEAN, answer \in ProviderAnswers :
          IF framed
          THEN /\ scratch' = scratch \cup {<<"frames", 0>>}
               /\ provider_calls' = provider_calls + 1
               /\ scene_analysis' = answer
          ELSE /\ scene_analysis' = [error |-> "mkdtemp failed"]
               /\ UNCHANGED <<scratch, provider_calls>>
    /\ pc' = "loop"
    /\ UNCHANGED <<operations, preset, parameters, fs, temp_dir, idx, current_file, file_info,
                   operation_results, result, calls, job_status, stored>>
    /\ UNCHANGED notEngine

\* process: scene_analysis = {}
NoSceneAnalysis ==
    /\ pc = "scene"
    /\ ~NeedsSceneAnalysis(operations)
    /\ scene_analysis' = EmptyDict
    /\ pc' = "loop"
    /\ UNCHANGED <<operations, preset, parameters, fs, temp_dir, scratch, idx, current_file,
                   file_info, operation_results, result, provider_calls, calls, job_status,
                   stored>>
    /\ UNCHANGED notEngine

\* process: an unknown operation name is skipped.
SkipUnknown ==
    /\ pc = "loop"
    /\ idx <= Len(operations)
    /\ operations[idx] \notin KnownOps
    /\ idx' = idx + 1
    /\ UNCHANGED <<operations, preset, parameters, fs, temp_dir, scratch, pc, current_file,
                   file_info, scene_analysis, operation_results, result, provider_calls,
                   calls, job_status, stored>>
    /\ UNCHANGED notEngine

\* The cursor after an operation has returned.
NextCurrentFile(current, intermediate_file, op_result) == intermediate_file

\* process: one pass of the loop body for a known operation. An exception of
\* apply leaves process through the with block, which removes the directory.
ApplyOperation ==
    /\ pc = "loop"
    /\ idx <= Len(operations)
    /\ operations[idx] \in KnownOps
    /\ \E run \in RunFates, copy \in CopyFates :
          LET op_name == operations[idx]
              op_params == GetOperationParameters(op_name, preset, parameters)
              intermediate_file == IntermediateFile(op_name)
              o == Apply(op_name, fs, current_file, intermediate_file, op_params,
                         scene_analysis, run, copy)
          IN  /\ calls' = Append(calls,
                     [op_name |-> op_name, input_path |-> current_file,
                      output_path |-> intermediate_file, before |-> fs,
                      input |-> fs[current_file],
                      probe |-> Probe(fs, current_file), parameters |-> op_params,
                      context |-> scene_analysis, filter |-> o.filter, copy |-> o.copy,
                      raised |-> o.raised, result |-> o.result, ran |-> o.ran,
                      preset_used |-> ResolveCall(op_name, preset, parameters).preset,
                      output |-> o.fs[intermediate_file],
                      provider_calls |-> provider_calls])
              /\ scratch' = IF o.mkdtemp
                            THEN scratch \cup {<<"vidstab", Len(calls)>>} ELSE scratch
              /\ IF o.raised
                 THEN /\ fs' = Cleanup(o.fs)
                      /\ temp_dir' = FALSE
                      /\ pc' = "raised"
                      /\ UNCHANGED <<idx, current_file, operation_results>>
                 ELSE /\ fs' = o.fs
                      /\ current_file' = NextCurrentFile(current_file, intermediate_file, o.result)
                      /\ operation_results' = DictSet(operation_results, op_name, o.result)
                      /\ idx' = idx + 1
                      /\ UNCHANGED <<temp_dir, pc>>
    /\ UNCHANGED <<operations, preset, parameters, file_info, scene_analysis, result,
                   provider_calls, job_status, stored>>
    /\ UNCHANGED notEngine

\* os.rename(src, dst) inside the run: dst is in the temporary directory.
\* It raises when src is missing, and (crossdev) when src is the caller's file
\* on another filesystem than the temporary directory.
Rename(f, src, dst, crossdev) ==
    IF ~Exists(f, src) \/ (src = InputPath /\ crossdev)
    THEN [ok |-> FALSE, fs |-> f]
    ELSE [ok |-> TRUE, fs |-> [f EXCEPT ![dst] = f[src], ![src] = NoFile]]

\* process after the loop: the cursor's file is renamed to the final output, the
\* report is built and the result returned; leaving the with block removes the
\* temporary directory.
Finalize ==
    /\ pc = "loop"
    /\ idx > Len(operations)
    /\ \E crossdev \in BOOLEAN :
          LET moved == Rename(fs, current_file, FinalOutput, crossdev)
          IN  /\ fs' = Cleanup(moved.fs)
              /\ IF moved.ok
                 THEN /\ result' = [output_path |-> FinalOutput,
                                    metadata |-> [input_file |-> InputPath,
                                                  operations |-> operation_results,
                                                  preset |-> preset,
                                                  file_info |-> file_info,
                                                  scene_analysis |-> scene_analysis]]
                      /\ pc' = "returned"
                 ELSE /\ pc' = "raised"
                      /\ UNCHANGED result
    /\ temp_dir' = FALSE
    /\ UNCHANGED <<operations, preset, parameters, scratch, idx, current_file, file_info,
                   scene_analysis, operation_results, provider_calls, calls, job_status,
                   stored>>
    /\ UNCHANGED notEngine

\* process_job after process has returned: store_file copies result.output_path
\* to the output location; when that raises, the job fails.
StoreFile ==
    /\ pc = "returned"
    /\ IF Exists(fs, result.output_path)
       THEN /\ stored' = fs[result.output_path]
            /\ job_status' = "completed"
       ELSE /\ job_status' = "failed"
            /\ UNCHANGED stored
    /\ pc' = "done"
    /\ UNCHANGED <<operations, preset, parameters, fs, temp_dir, scratch, idx, current_file,
                   file_info, scene_analysis, operation_results, result, provider_calls,
                   calls>>
    /\ UNCHANGED notEngine

\* process_job when process has raised.
JobError ==
    /\ pc = "raised"
    /\ job_status' = "failed"
    /\ pc' = "done"
    /\ UNCHANGED <<operations, preset, parameters, fs, temp_dir, scratch, idx, current_file,
                   file_info, scene_analysis, operation_results, result, provider_calls,
                   calls, stored>>
    /\ UNCHANGED notEngine

Next ==
    \/ StartJob
    \/ Begin
    \/ AnalyzeScene
    \/ NoSceneAnalysis
    \/ SkipUnknown
    \/ ApplyOperation
    \/ Finalize
    \/ StoreFile
    \/ JobError

Spec == Init /\ [][Next]_vars

--------------------------------------------------------------------------
(* One request and the cancel requests for its job: process_job runs as a   *)
(* background task in a worker thread while cancel_job is served             *)

\* Cancel requests made for the job.
MaxCancels == 1

\* cancel_job up to its status check: job = job_tracker.get_job(job_id); a
\* completed or failed job is refused with status 400.
CancelCheck ==
    /\ cancel_pc = "idle"
    /\ cancels < MaxCancels
    /\ job_status # "none"
    /\ IF job_status \in {"completed", "failed"}
       THEN /\ cancels' = cancels + 1
            /\ UNCHANGED cancel_pc
       ELSE /\ cancel_pc' = "checked"
            /\ UNCHANGED cancels
    /\ UNCHANGED <<engineVars, resolveVars, storeVars, applyVars, scaleVars, retentionVars,
                   cleanupVars, concVars>>

\* cancel_job after the check: job_tracker.update_job(job_id, {"status": "cancelled"})
CancelUpdate ==
    /\ cancel_pc = "checked"
    /\ job_status' = "cancelled"
    /\ cancel_pc' = "idle"
    /\ cancels' = cancels + 1
    /\ UNCHANGED <<operations, preset, parameters, fs, temp_dir, scratch, pc, idx, current_file,
                   file_info, scene_analysis, operation_results, result, provider_calls,
                   calls, stored>>
    /\ UNCHANGED <<resolveVars, storeVars, applyVars, scaleVars, retentionVars, cleanupVars,
                   concVars>>

JobNext ==
    \/ Next
    \/ CancelCheck
    \/ CancelUpdate

JobSpec == Init /\ [][JobNext]_vars

--------------------------------------------------------------------------
(* Two calls of ProcessingEngine.process running at once, given the same     *)
(* input file, each in its own TemporaryDirectory                            *)

Procs == {1, 2}

\* The directory tempfile.TemporaryDirectory() gives the call: a fresh one each.
ProcDir(i) == "temp_dir_" \o ToString(i) \o "/"

\* os.path.join(temp_dir, f"{op_name}_output{ext}")
ProcIntermediate(i, op_name) == ProcDir(i) \o op_name \o "_output"

\* os.path.join(temp_dir, f"final_output{ext}")
ProcFinal(i) == ProcDir(i) \o "final_output"

ProcTempPaths(i) == {ProcIntermediate(i, op) : op \in KnownOps} \cup {ProcFinal(i)}

ConcPaths == {InputPath} \cup UNION {ProcTempPaths(i) : i \in Procs}

\* TemporaryDirectory.__exit__ of call i.
ProcCleanup(i, f) == [p \in ConcPaths |-> IF p \in ProcTempPaths(i) THEN NoFile ELSE f[p]]

\* The operations lists the calls are given: those that ask for no scene
\* analysis.
ConcOperations ==
    {<<>>, <<"sharpen">>, <<"artifact_removal">>, <<"artifact_removal", "artifact_removal">>}

\* The files before the calls start.
ConcFiles(input) == [p \in ConcPaths |-> IF p = InputPath THEN input ELSE NoFile]

\* _get_file_info(input_file)
ProcFileInfo(f) ==
    IF Probe(f, InputPath) = "fail" THEN [error |-> "probe error"]
    ELSE [streams |-> Probe(f, InputPath)]

\* One pass of the loop body of call i for a known operation.
ProcApply(i, f, cursor, op_name, fate) ==
    Apply(op_name, f, cursor, ProcIntermediate(i, op_name),
          GetOperationParameters(op_name, "standard", EmptyDict), EmptyDict,
          fate.run, fate.copy)

\* What process returns, without the output path and the duration, which
\* differ from call to call.
ProcReturn(info, results) ==
    [raised |-> FALSE,
     metadata |-> [input_file |-> InputPath, operations |-> results, preset |-> "standard",
                   file_info |-> info, scene_analysis |-> EmptyDict]]

\* process left by an exception.
ProcRaise == [raised |-> TRUE]

\* The loop of process and what follows it, run by call i with no other call
\* on the filesystem.
RECURSIVE AloneLoop(_, _, _, _, _, _, _, _, _)
AloneLoop(i, ops, k, f, cursor, results, info, fate, crossdev) ==
    IF k > Len(ops)
    THEN IF Rename(f, cursor, ProcFinal(i), crossdev).ok
         THEN ProcReturn(info, results)
         ELSE ProcRaise
    ELSE IF ops[k] \notin KnownOps
    THEN AloneLoop(i, ops, k + 1, f, cursor, results, info, fate, crossdev)
    ELSE LET o == ProcApply(i, f, cursor, ops[k], fate)
         IN  IF o.raised THEN ProcRaise
             ELSE AloneLoop(i, ops, k + 1, o.fs, ProcIntermediate(i, ops[k]),
                            DictSet(results, ops[k], o.result), info, fate, crossdev)

\* process(input_file, operations) as call i runs it alone, with the fates of
\* its steps.
RunAlone(i, args) ==
    AloneLoop(i, args.operations[i], 1, ConcFiles(args.input), InputPath, <<>>,
              ProcFileInfo(ConcFiles(args.input)), args.fates[i], args.crossdev)

ConcInit ==
    /\ conc_args \in [input : {[kind |-> kind, ver |-> <<>>] : kind \in InputKinds},
                      crossdev : BOOLEAN,
                      operations : [Procs -> ConcOperations],
                      fates : [Procs -> [run : RunFates, copy : CopyFates]]]
    /\ conc_fs = ConcFiles(conc_args.input)
    /\ conc_pc = [i \in Procs |-> "called"]
    /\ conc_idx = [i \in Procs |-> 1]
    /\ conc_cursor = [i \in Procs |-> InputPath]
    /\ conc_info = [i \in Procs |-> EmptyDict]
    /\ conc_results = [i \in Procs |-> <<>>]
    /\ conc_result = [i \in Procs |-> EmptyDict]
    /\ conc_reads = [i \in Procs |-> {}]
    /\ conc_writes = [i \in Procs |-> {}]
    /\ EngineIdle
    /\ ResolveIdle
    /\ StoreIdle
    /\ ApplyIdle
    /\ ScaleIdle
    /\ RetentionIdle
    /\ CleanupIdle
    /\ JobIdle

\* process of call i: the temporary directory is created and the input probed.
ProcBegin(i) ==
    /\ conc_pc[i] = "called"
    /\ conc_info' = [conc_info EXCEPT ![i] = ProcFileInfo(conc_fs)]
    /\ conc_reads' = [conc_reads EXCEPT ![i] = @ \cup {InputPath}]
    /\ conc_pc' = [conc_pc EXCEPT ![i] = "loop"]
    /\ UNCHANGED <<conc_args, conc_fs, conc_idx, conc_cursor, conc_results, conc_result,
                   conc_writes>>
    /\ UNCHANGED notConc

\* process of call i: an unknown operation name is skipped.
ProcSkipUnknown(i) ==
    /\ conc_pc[i] = "loop"
    /\ conc_idx[i] <= Len(conc_args.operations[i])
    /\ conc_args.operations[i][conc_idx[i]] \notin KnownOps
    /\ conc_idx' = [conc_idx EXCEPT ![i] = @ + 1]
    /\ UNCHANGED <<conc_args, conc_fs, conc_pc, conc_cursor, conc_info, conc_results,
                   conc_result, conc_reads, conc_writes>>
    /\ UNCHANGED notConc

\* process of call i: one pass of the loop body for a known operation, which
\* reads the cursor's file and writes the intermediate file.
ProcApplyOperation(i) ==
    /\ conc_pc[i] = "loop"
    /\ conc_idx[i] <= Len(conc_args.operations[i])
    /\ conc_args.operations[i][conc_idx[i]] \in KnownOps
    /\ LET op_name == conc_args.operations[i][conc_idx[i]]
           o == ProcApply(i, conc_fs, conc_cursor[i], op_name, conc_args.fates[i])
       IN  /\ conc_reads' = [conc_reads EXCEPT ![i] = @ \cup {conc_cursor[i]}]
           /\ IF o.raised
              THEN /\ conc_fs' = ProcCleanup(i, o.fs)
                   /\ conc_writes' = [conc_writes EXCEPT ![i] = @ \cup ProcTempPaths(i)]
                   /\ conc_pc' = [conc_pc EXCEPT ![i] = "raised"]
                   /\ conc_result' = [conc_result EXCEPT ![i] = ProcRaise]
                   /\ UNCHANGED <<conc_idx, conc_cursor, conc_results>>
              ELSE /\ conc_fs' = o.fs
                   /\ conc_writes' = [conc_writes EXCEPT
                                         ![i] = @ \cup {ProcIntermediate(i, op_name)}]
                   /\ conc_cursor' = [conc_cursor EXCEPT ![i] = ProcIntermediate(i, op_name)]
                   /\ conc_results' = [conc_results EXCEPT ![i] = DictSet(@, op_name, o.result)]
                   /\ conc_idx' = [conc_idx EXCEPT ![i] = @ + 1]
                   /\ UNCHANGED <<conc_pc, conc_result>>
    /\ UNCHANGED <<conc_args, conc_info>>
    /\ UNCHANGED notConc

\* process of call i after the loop: the cursor's file is renamed to the final
\* output and the result returned; leaving the with block removes the
\* temporary directory.
ProcFinalize(i) ==
    /\ conc_pc[i] = "loop"
    /\ conc_idx[i] > Len(conc_args.operations[i])
    /\ LET moved == Rename(conc_fs, conc_cursor[i], ProcFinal(i), conc_args.crossdev)
       IN  /\ conc_fs' = ProcCleanup(i, moved.fs)
           /\ IF moved.ok
              THEN /\ conc_writes' = [conc_writes EXCEPT
                                         ![i] = @ \cup {conc_cursor[i]} \cup ProcTempPaths(i)]
                   /\ conc_result' = [conc_result EXCEPT
                                         ![i] = ProcReturn(conc_info[i], conc_results[i])]
                   /\ conc_pc' = [conc_pc EXCEPT ![i] = "returned"]
              ELSE /\ conc_writes' = [conc_writes EXCEPT ![i] = @ \cup ProcTempPaths(i)]
                   /\ conc_result' = [conc_result EXCEPT ![i] = ProcRaise]
                   /\ conc_pc' = [conc_pc EXCEPT ![i] = "raised"]
    /\ UNCHANGED <<conc_args, conc_idx, conc_cursor, conc_info, conc_results, conc_reads>>
    /\ UNCHANGED notConc

ConcNext ==
    \E i \in Procs :
        \/ ProcBegin(i)
        \/ ProcSkipUnknown(i)
        \/ ProcApplyOperation(i)
        \/ ProcFinalize(i)

ConcSpec == ConcInit /\ [][ConcNext]_vars

--------------------------------------------------------------------------
(* Parameter resolution on its own: calls of _get_operation_parameters by a  *)
(* caller that keeps its overrides map between calls                        *)

\* Calls of _get_operation_parameters one caller makes.
MaxResolves == 2

\* The overrides maps the caller may hold: those of a request, and maps that
\* name some operations only, change a preset's key, add a key to it, or hold
\* an empty entry.
ResolveOverrides ==
    Overrides \cup
    {[denoise |-> [strength |-> 900]],
     [denoise |-> [strength |-> 900, temporal |-> FALSE],
      stabilize |-> [crop_margin |-> 200, method |-> "deshake"]],
     [artifact_removal |-> EmptyDict, color_correct |-> [gamma |-> 1100]]}

ResolveInit ==
    /\ EngineIdle
    /\ StoreIdle
    /\ ApplyIdle
    /\ ScaleIdle
    /\ RetentionIdle
    /\ CleanupIdle
    /\ JobIdle
    /\ ConcIdle
    /\ custom_params \in ResolveOverrides
    /\ resolutions = <<>>

\* One call; given is what the caller passes as custom_params, kept is what its
\* own map holds once the call has returned.
ResolveLog(operation_name, preset_id, passed, given, r, kept) ==
    [operation_name |-> operation_name, preset |-> preset_id, passed |-> passed,
     custom_params |-> given, params |-> r.params, raised |-> r.raised,
     resolved_from |-> r.preset, after |-> kept, presets |-> r.presets]

\* The caller resolves an operation's parameters and passes its overrides map.
Resolve ==
    /\ Len(resolutions) < MaxResolves
    /\ \E operation_name \in OpNames, preset_id \in PresetIds :
          LET r == ResolveCall(operation_name, preset_id, custom_params)
          IN  /\ custom_params' = r.custom_params
              /\ resolutions' = Append(resolutions,
                     ResolveLog(operation_name, preset_id, TRUE, custom_params, r,
                                r.custom_params))
    /\ UNCHANGED notResolve

\* The caller resolves an operation's parameters and passes no overrides
\* (custom_params = None).
ResolveNoOverrides ==
    /\ Len(resolutions) < MaxResolves
    /\ \E operation_name \in OpNames, preset_id \in PresetIds :
          LET r == ResolveCall(operation_name, preset_id, EmptyDict)
          IN  resolutions' = Append(resolutions,
                  ResolveLog(operation_name, preset_id, FALSE, EmptyDict, r, custom_params))
    /\ UNCHANGED custom_params
    /\ UNCHANGED notResolve

ResolveNext ==
    \/ Resolve
    \/ ResolveNoOverrides

ResolveSpec == ResolveInit /\ [][ResolveNext]_vars

--------------------------------------------------------------------------
(* The preset store: ConfigManager *)

\* self.default_presets as __init__ sets it.
BuiltinPresets ==
    [standard |->
        [name |-> "Standard", description |-> "Balanced processing for general media",
         denoise_strength |-> 500, stabilize_strength |-> 500,
         color_correction |-> [white_balance |-> "auto", saturation |-> 1000,
                               contrast |-> 1000, brightness |-> 1000],
         artifact_removal |-> <<"compression", "banding">>],
     web |->
        [name |-> "Web Optimized", description |-> "Settings optimized for web delivery",
         denoise_strength |-> 400, stabilize_strength |-> 300,
         color_correction |-> [white_balance |-> "auto", saturation |-> 1100,
                               contrast |-> 1100, brightness |-> 1000],
         artifact_removal |-> <<"compression">>],
     cinema |->
        [name |-> "Cinema Quality",
         description |-> "High-quality settings for cinematic content",
         denoise_strength |-> 600, stabilize_strength |-> 700,
         color_correction |-> [white_balance |-> "5600K", saturation |-> 1100,
                               contrast |-> 1200, brightness |-> 950,
                               highlights |-> 100, shadows |-> 200],
         artifact_removal |-> <<"compression", "banding", "moire">>],
     archival |->
        [name |-> "Archival", description |-> "Minimal processing for archival purposes",
         denoise_strength |-> 300, stabilize_strength |-> 0,
         color_correction |-> [white_balance |-> "auto", saturation |-> 1000,
                               contrast |-> 1000, brightness |-> 1000],
         artifact_removal |-> <<>>]]

\* The names a caller gives its presets.
PresetNames == {"Standard", "My Look", "Custom Preset"}

\* name.lower().replace(" ", "_") on those names and on the empty name.
LowerUnderscore(name) ==
    CASE name = "Standard"      -> "standard"
      [] name = "My Look"       -> "my_look"
      [] name = "Custom Preset" -> "custom_preset"
      [] OTHER                  -> ""

\* str(uuid.uuid4())[:8] of a call: a value no earlier call has drawn.
Uuids == {"1a2b3c4d"}

\* The preset data a caller creates presets with: named, or without a name.
CreateData ==
    {[name |-> n, denoise_strength |-> 900] : n \in PresetNames}
        \cup {[denoise_strength |-> 900]}

\* The preset data a caller updates presets with.
UpdateData == {[denoise_strength |-> 100]}

\* The identifiers a caller asks for: the built-ins, those of its own presets,
\* and one that names nothing.
StoreIds ==
    DOMAIN BuiltinPresets
        \cup {LowerUnderscore(n) : n \in PresetNames}
        \cup {"custom_" \o u : u \in Uuids}
        \cup {"missing"}

\* d[k] = v
DictPut(d, k, v) == [x \in DOMAIN d \cup {k} |-> IF x = k THEN v ELSE d[x]]

\* del d[k]
DictDel(d, k) == [x \in DOMAIN d \ {k} |-> d[x]]

\* What one Firestore request does: it is answered, or it raises.
RemoteFates == {"ok", "fail"}

\* ConfigManager(use_firestore): a failed connection turns the backend off.
StoreInit ==
    /\ EngineIdle
    /\ ResolveIdle
    /\ ApplyIdle
    /\ ScaleIdle
    /\ RetentionIdle
    /\ CleanupIdle
    /\ JobIdle
    /\ ConcIdle
    /\ use_firestore \in BOOLEAN
    /\ default_presets = BuiltinPresets
    /\ presets_collection = EmptyDict
    /\ store_returned = EmptyDict

\* get_preset(preset_id): found = FALSE is None.
GetPreset(preset_id, remote) ==
    IF preset_id \in DOMAIN default_presets
    THEN [found |-> TRUE, data |-> default_presets[preset_id]]
    ELSE IF use_firestore /\ remote = "ok" /\ preset_id \in DOMAIN presets_collection
    THEN [found |-> TRUE, data |-> presets_collection[preset_id]]
    ELSE [found |-> FALSE, data |-> EmptyDict]

\* create_preset(preset_data)
CreatePreset ==
    /\ \E preset_data \in CreateData, uuid \in Uuids, remote \in RemoteFates :
          LET named == LowerUnderscore(Get(preset_data, "name", ""))
              preset_id == IF named = "" THEN "custom_" \o uuid ELSE named
          IN  /\ named = "" =>
                    preset_id \notin DOMAIN default_presets \cup DOMAIN presets_collection
              /\ IF use_firestore /\ remote = "ok"
                 THEN /\ presets_collection' = DictPut(presets_collection, preset_id, preset_data)
                      /\ UNCHANGED default_presets
                 ELSE /\ default_presets' = DictPut(default_presets, preset_id, preset_data)
                      /\ UNCHANGED presets_collection
              /\ store_returned' = [call |-> "create_preset", preset_id |-> preset_id,
                                    value |-> preset_id]
    /\ UNCHANGED use_firestore
    /\ UNCHANGED notStore

\* update_preset(preset_id, preset_data)
UpdatePreset ==
    /\ \E preset_id \in StoreIds, preset_data \in UpdateData, remote \in RemoteFates :
          IF preset_id \in DOMAIN default_presets /\ preset_id # "custom_preset"
          THEN /\ store_returned' = [call |-> "update_preset", preset_id |-> preset_id,
                                     value |-> FALSE]
               /\ UNCHANGED <<default_presets, presets_collection>>
          ELSE IF use_firestore
          THEN IF remote = "ok" /\ preset_id \in DOMAIN presets_collection
               THEN /\ presets_collection' =
                          DictPut(presets_collection, preset_id,
                                  Update(presets_collection[preset_id], preset_data))
                    /\ store_returned' = [call |-> "update_preset", preset_id |-> preset_id,
                                          value |-> TRUE]
                    /\ UNCHANGED default_presets
               ELSE /\ store_returned' = [call |-> "update_preset", preset_id |-> preset_id,
                                          value |-> FALSE]
                    /\ UNCHANGED <<default_presets, presets_collection>>
          ELSE IF preset_id \notin DOMAIN default_presets
          THEN /\ store_returned' = [call |-> "update_preset", preset_id |-> preset_id,
                                     value |-> FALSE]
               /\ UNCHANGED <<default_presets, presets_collection>>
          ELSE /\ default_presets' =
                     DictPut(default_presets, preset_id,
                             Update(default_presets[preset_id], preset_data))
               /\ store_returned' = [call |-> "update_preset", preset_id |-> preset_id,
                                     value |-> TRUE]
               /\ UNCHANGED presets_collection
    /\ UNCHANGED use_firestore
    /\ UNCHANGED notStore

\* delete_preset(preset_id)
DeletePreset ==
    /\ \E preset_id \in StoreIds, remote \in RemoteFates :
          IF preset_id \in DOMAIN default_presets /\ preset_id # "custom_preset"
          THEN /\ store_returned' = [call |-> "delete_preset", preset_id |-> preset_id,
                                     value |-> FALSE]
               /\ UNCHANGED <<default_presets, presets_collection>>
          ELSE IF use_firestore
          THEN IF remote = "ok" /\ preset_id \in DOMAIN presets_collection
               THEN /\ presets_collection' = DictDel(presets_collection, preset_id)
                    /\ store_returned' = [call |-> "delete_preset", preset_id |-> preset_id,
                                          value |-> TRUE]
                    /\ UNCHANGED default_presets
               ELSE /\ store_returned' = [call |-> "delete_preset", preset_id |-> preset_id,
                                          value |-> FALSE]
                    /\ UNCHANGED <<default_presets, presets_collection>>
          ELSE IF preset_id \notin DOMAIN default_presets
          THEN /\ store_returned' = [call |-> "delete_preset", preset_id |-> preset_id,
                                     value |-> FALSE]
               /\ UNCHANGED <<default_presets, presets_collection>>
          ELSE /\ default_presets' = DictDel(default_presets, preset_id)
               /\ store_returned' = [call |-> "delete_preset", preset_id |-> preset_id,
                                     value |-> TRUE]
               /\ UNCHANGED presets_collection
    /\ UNCHANGED use_firestore
    /\ UNCHANGED notStore

StoreNext ==
    \/ CreatePreset
    \/ UpdatePreset
    \/ DeletePreset

StoreSpec == StoreInit /\ [][StoreNext]_vars

--------------------------------------------------------------------------
(* The preset store and the pipeline together: a caller reads preset         *)
(* identifiers from the store (GET /v1/presets, POST /v1/presets) and names  *)
(* one in a processing request                                               *)

\* get_presets(): the built-in and local presets, and over them the documents
\* of the collection when the backend answers.
GetPresets(remote) ==
    IF use_firestore /\ remote = "ok"
    THEN Update(default_presets, presets_collection)
    ELSE default_presets

\* The caller lists the presets.
ListPresets ==
    /\ resolutions = <<>>
    /\ \E remote \in RemoteFates :
          store_returned' = [call |-> "get_presets", preset_id |-> "",
                             value |-> GetPresets(remote)]
    /\ UNCHANGED <<use_firestore, default_presets, presets_collection>>
    /\ UNCHANGED notStore

\* The caller asks for one preset.
LookupPreset ==
    /\ resolutions = <<>>
    /\ \E preset_id \in StoreIds, remote \in RemoteFates :
          LET got == GetPreset(preset_id, remote)
          IN  store_returned' = [call |-> "get_preset", preset_id |-> preset_id,
                                 value |-> IF got.found THEN DictPut(EmptyDict, preset_id, got.data)
                                           ELSE EmptyDict]
    /\ UNCHANGED <<use_firestore, default_presets, presets_collection>>
    /\ UNCHANGED notStore

\* The presets the store has just listed or returned to the caller, by
\* identifier.
Offered ==
    IF store_returned = EmptyDict THEN EmptyDict
    ELSE IF store_returned.call \in {"get_presets", "get_preset"} THEN store_returned.value
    ELSE IF store_returned.call = "create_preset"
    THEN LET got == GetPreset(store_returned.value, "ok")
         IN  IF got.found THEN DictPut(EmptyDict, store_returned.value, got.data)
             ELSE EmptyDict
    ELSE EmptyDict

\* process called with an identifier the store has just offered: the
\* parameters of an operation are resolved for it.
ProcessOffered ==
    /\ resolutions = <<>>
    /\ \E preset_id \in DOMAIN Offered, operation_name \in KnownOps :
          LET r == ResolveCall(operation_name, preset_id, EmptyDict)
          IN  resolutions' = <<ResolveLog(operation_name, preset_id, FALSE, EmptyDict, r,
                                          custom_params)>>
    /\ UNCHANGED custom_params
    /\ UNCHANGED notResolve

AgreeNext ==
    \/ CreatePreset
    \/ ListPresets
    \/ LookupPreset
    \/ ProcessOffered

AgreeSpec == StoreInit /\ [][AgreeNext]_vars

--------------------------------------------------------------------------
(* An operation's apply called on its own, on a video file *)

\* Largest strength, crop_margin and saturation a caller gives, in hundredths.
MaxStrengthPct == 120
MaxCropPct == 30
MaxSaturationPct == 150

Strengths == {10 * i : i \in 0..MaxStrengthPct}
CropMargins == {10 * i : i \in 0..MaxCropPct}
Saturations == {10 * i : i \in 0..MaxSaturationPct}

\* An analysis that reports nothing the operations adjust to.
CtxOther ==
    [noise_assessment      |-> [level |-> "medium"],
     motion_assessment     |-> [camera_shake |-> "medium"],
     color_characteristics |-> [temperature |-> "neutral", color_cast |-> "magenta"],
     artifacts             |-> {}]

\* The contexts apply may be given: none, an error-tagged one, an analysis.
ApplyContexts == {EmptyDict, CtxError, CtxHigh, CtxLow, CtxOther}

\* The parameters apply may be given, by operation.
ApplyParameters(op_name) ==
    CASE op_name = "denoise" ->
            {[strength |-> s, preserve_details |-> d] : s \in Strengths, d \in BOOLEAN}
      [] op_name = "stabilize" ->
            {[strength |-> s, crop_margin |-> c, method |-> m] :
                s \in Strengths, c \in CropMargins, m \in {"vidstab", "deshake"}}
      [] OTHER ->
            {[saturation |-> s] : s \in Saturations}

\* The files of such a call: a video at the input path and nothing else.
VideoOnly ==
    [p \in Paths |-> IF p = InputPath THEN [kind |-> "video", ver |-> <<>>] ELSE NoFile]

ApplyInit ==
    /\ EngineIdle
    /\ ResolveIdle
    /\ StoreIdle
    /\ ScaleIdle
    /\ RetentionIdle
    /\ CleanupIdle
    /\ JobIdle
    /\ ConcIdle
    /\ \E op_name \in {"denoise", "stabilize", "color_correct"} :
          \E op_parameters \in ApplyParameters(op_name), op_context \in ApplyContexts :
              apply_args = [op_name |-> op_name, parameters |-> op_parameters,
                            context |-> op_context]
    /\ apply_result = EmptyDict
    /\ apply_ran = EmptyDict

\* DenoiseOperation.apply(input_path, output_path, parameters, context)
DenoiseCall ==
    /\ apply_result = EmptyDict
    /\ apply_args.op_name = "denoise"
    /\ \E run \in RunFates, copy \in CopyFates :
          LET o == DenoiseApply(VideoOnly, InputPath, IntermediateFile("denoise"),
                                apply_args.parameters, apply_args.context, run, copy)
          IN  apply_result' = o.result /\ apply_ran' = o.ran
    /\ UNCHANGED apply_args
    /\ UNCHANGED notApply

\* StabilizeOperation.apply(input_path, output_path, parameters, context)
StabilizeCall ==
    /\ apply_result = EmptyDict
    /\ apply_args.op_name = "stabilize"
    /\ \E run \in RunFates, copy \in CopyFates :
          LET o == StabilizeApply(VideoOnly, InputPath, IntermediateFile("stabilize"),
                                  apply_args.parameters, apply_args.context, run, copy)
          IN  apply_result' = o.result /\ apply_ran' = o.ran
    /\ UNCHANGED apply_args
    /\ UNCHANGED notApply

\* ColorCorrectionOperation.apply(input_path, output_path, parameters, context)
ColorCorrectionCall ==
    /\ apply_result = EmptyDict
    /\ apply_args.op_name = "color_correct"
    /\ \E run \in RunFates, copy \in CopyFates :
          LET o == ColorCorrectionApply(VideoOnly, InputPath,
                                        IntermediateFile("color_correct"),
                                        apply_args.parameters, apply_args.context, run, copy)
          IN  apply_result' = o.result /\ apply_ran' = o.ran
    /\ UNCHANGED apply_args
    /\ UNCHANGED notApply

ApplyNext ==
    \/ DenoiseCall
    \/ StabilizeCall
    \/ ColorCorrectionCall

ApplySpec == ApplyInit /\ [][ApplyNext]_vars

--------------------------------------------------------------------------
(* Denoise called on its own with two strengths, on a video or an audio file *)

\* The files of a call on an audio file.
AudioOnly ==
    [p \in Paths |-> IF p = InputPath THEN [kind |-> "audio", ver |-> <<>>] ELSE NoFile]

ScaleInit ==
    /\ EngineIdle
    /\ ResolveIdle
    /\ StoreIdle
    /\ ApplyIdle
    /\ RetentionIdle
    /\ CleanupIdle
    /\ JobIdle
    /\ ConcIdle
    /\ \E low \in Strengths, high \in Strengths :
          /\ low <= high
          /\ \/ \E preserve_details \in BOOLEAN, temporal \in BOOLEAN :
                   scale_args = [media_type |-> "video", strengths |-> <<low, high>>,
                                 parameters |-> [preserve_details |-> preserve_details,
                                                 temporal |-> temporal]]
             \/ scale_args = [media_type |-> "audio", strengths |-> <<low, high>>,
                              parameters |-> EmptyDict]
    /\ scale_log = <<>>

\* The parameters of the next call: the flags and the next strength.
ScaleParameters ==
    Update(scale_args.parameters, [strength |-> scale_args.strengths[Len(scale_log) + 1]])

\* DenoiseOperation.apply on a video, without context.
ScaleVideo ==
    /\ Len(scale_log) < Len(scale_args.strengths)
    /\ scale_args.media_type = "video"
    /\ \E run \in RunFates, copy \in CopyFates :
          LET o == DenoiseApply(VideoOnly, InputPath, IntermediateFile("denoise"),
                                ScaleParameters, EmptyDict, run, copy)
          IN  scale_log' = Append(scale_log, o.ran)
    /\ UNCHANGED scale_args
    /\ UNCHANGED notScale

\* DenoiseOperation.apply on an audio file, without context.
ScaleAudio ==
    /\ Len(scale_log) < Len(scale_args.strengths)
    /\ scale_args.media_type = "audio"
    /\ \E run \in RunFates, copy \in CopyFates :
          LET o == DenoiseApply(AudioOnly, InputPath, IntermediateFile("denoise"),
                                ScaleParameters, EmptyDict, run, copy)
          IN  scale_log' = Append(scale_log, o.ran)
    /\ UNCHANGED scale_args
    /\ UNCHANGED notScale

ScaleNext ==
    \/ ScaleVideo
    \/ ScaleAudio

ScaleSpec == ScaleInit /\ [][ScaleNext]_vars

--------------------------------------------------------------------------
(* The cleanup tool's retention policy: RetentionPolicy                     *)
(* A path is the sequence of the pieces it is written from, so that         *)
(* "pattern in path" is the presence of a piece. Times are in seconds.      *)

\* Files in the list handed to apply_policy.
MaxFiles == 2

\* Seconds in a day.
DaySeconds == 86400

\* time.time() when apply_policy runs.
CurrentTime == 100 * DaySeconds

\* pattern in path
Contains(path, pattern) == \E i \in 1..Len(path) : path[i] = pattern

\* The paths the scanner may report, with their extensions.
ScannedPaths ==
    {[path |-> <<"/test", "/logs/", "app", ".log">>,       extension |-> ".log"],
     [path |-> <<"/test/render", "_scratch", ".tmp">>,     extension |-> ".tmp"],
     [path |-> <<"/test/", "backup", "/shots", ".bak">>,   extension |-> ".bak"],
     [path |-> <<"/test/", "backup", "/notes", ".txt">>,   extension |-> ".txt"],
     [path |-> <<"/test/out/frame", ".exr">>,              extension |-> ".exr"]}

\* Ages of the files, in days; sizes in bytes.
AgeDays == {1, 7, 8, 31, 91}
FileSizes == {1024}

\* The file info dicts FileScanner makes.
ScannedFiles ==
    {[path |-> p.path, extension |-> p.extension, size |-> size,
      modified_time |-> CurrentTime - age * DaySeconds] :
        p \in ScannedPaths, age \in AgeDays, size \in FileSizes}

\* The configs a RetentionPolicy may be given: none, and retention periods in
\* days by category, with a category that is kept forever, one that is not
\* configured and one with a negative period.
RetentionConfigs ==
    {EmptyDict,
     [logs |-> 1, intermediates |-> 0, backups |-> 7],
     [logs |-> 7, backups |-> 1],
     [logs |-> 0 - 1, intermediates |-> 1, backups |-> 30]}

\* RetentionPolicy._categorize_file(file_info)
CategorizeFile(info) ==
    LET path == info.path
        extension == info.extension
    IN  IF extension \in {".log", ".txt"} \/ Contains(path, "/logs/") THEN "logs"
        ELSE IF Contains(path, "_temp") \/ Contains(path, "_scratch")
                \/ extension \in {".tmp", ".temp"} THEN "intermediates"
        ELSE IF Contains(path, "backup") \/ Contains(path, "archive") THEN "backups"
        ELSE "intermediates"

\* ExceedsRetention that also takes a file exactly as old as the period.
ExceedsRetentionInclusive(info, retention_days, current_time) ==
    info.modified_time <= current_time - retention_days * DaySeconds

\* file_info['modified_time'] < threshold
ExceedsRetention(info, retention_days, current_time) ==
    info.modified_time < current_time - retention_days * DaySeconds

\* The loop of apply_policy from file k on: the files as the loop leaves them
\* (a file it takes gets 'category' and 'retention_days') and the indices of
\* the files appended to filtered_files, in order.
RECURSIVE PolicyLoop(_, _, _, _)
PolicyLoop(config, files, k, current_time) ==
    IF k > Len(files)
    THEN [files |-> files, filtered |-> <<>>]
    ELSE LET info == files[k]
             file_category == CategorizeFile(info)
             retention_days == Get(config, file_category, 0)
             take == retention_days > 0
                        /\ ExceedsRetention(info, retention_days, current_time)
             marked == Update(info, [category |-> file_category,
                                          retention_days |-> retention_days])
             rest == PolicyLoop(config,
                                IF take THEN [files EXCEPT ![k] = marked] ELSE files,
                                k + 1, current_time)
         IN  [files |-> rest.files,
              filtered |-> IF take THEN <<k>> \o rest.filtered ELSE rest.filtered]

RetentionInit ==
    /\ EngineIdle
    /\ ResolveIdle
    /\ StoreIdle
    /\ ApplyIdle
    /\ ScaleIdle
    /\ CleanupIdle
    /\ JobIdle
    /\ ConcIdle
    /\ policy_given \in RetentionConfigs
    /\ policy_config = EmptyDict
    /\ policy_files \in SeqsUpTo(ScannedFiles, MaxFiles)
    /\ policy_scanned = policy_files
    /\ policy_returned = [done |-> FALSE, files |-> <<>>]

\* RetentionPolicy(config): self.config = config or the default periods.
NewRetentionPolicy ==
    /\ policy_config = EmptyDict
    /\ policy_config' = IF policy_given # EmptyDict THEN policy_given
                        ELSE [logs |-> 30, intermediates |-> 7, backups |-> 90]
    /\ UNCHANGED <<policy_given, policy_files, policy_scanned, policy_returned>>
    /\ UNCHANGED notRetention

\* policy.apply_policy(files)
ApplyPolicy ==
    /\ policy_config # EmptyDict
    /\ ~policy_returned.done
    /\ LET loop == PolicyLoop(policy_config, policy_files, 1, CurrentTime)
       IN  /\ policy_files' = loop.files
           /\ policy_returned' =
                 [done |-> TRUE,
                  files |-> [i \in 1..Len(loop.filtered) |-> loop.files[loop.filtered[i]]]]
    /\ UNCHANGED <<policy_given, policy_config, policy_scanned>>
    /\ UNCHANGED notRetention

RetentionNext ==
    \/ NewRetentionPolicy
    \/ ApplyPolicy

RetentionSpec == RetentionInit /\ [][RetentionNext]_vars

--------------------------------------------------------------------------
(* The cleanup tool's executor: CleanupExecutor *)

\* The paths the executor may be given, with their extensions.
CleanupPaths ==
    {[path |-> <<"/test/render", "_scratch", ".tmp">>,   extension |-> ".tmp"],
     [path |-> <<"/test/", "backup", "/shots", ".zip">>, extension |-> ".zip"],
     [path |-> <<"/test/out/frame", ".exr">>,            extension |-> ".exr"]}

CleanupSizes == {1024, 4096}

\* The file info dicts execute may be given: a scanner's, or one the retention
\* policy has marked with a category.
CleanupFiles ==
    {[path |-> p.path, extension |-> p.extension, size |-> size] :
        p \in CleanupPaths, size \in CleanupSizes}
    \cup {[path |-> p.path, extension |-> p.extension, size |-> size,
           category |-> "backups"] : p \in CleanupPaths, size \in CleanupSizes}

\* What a path holds: a file, a file that cannot be removed, or nothing.
DiskStates == [{p.path : p \in CleanupPaths} -> {"file", "locked", "none"}]

\* The configs a CleanupExecutor may be given: none, or action flags.
ExecutorConfigs ==
    {EmptyDict, [compress_renders |-> FALSE, archive_to_cold_storage |-> TRUE]}

\* CleanupResult()
NewCleanupResult ==
    [bytes_saved |-> 0, files_removed |-> 0, files_archived |-> 0, compressed_files |-> 0,
     success |-> TRUE, error_message |-> "", details |-> EmptyDict]

\* CleanupExecutor._should_compress(file_info)
ShouldCompress(info) ==
    info.extension \notin {".zip", ".gz", ".rar", ".7z", ".mp4", ".jpg", ".jpeg", ".png"}

\* CleanupExecutor._should_archive(file_info)
ShouldArchive(info) == Get(info, "category", "unknown") = "backups"

\* RemoveFile that removes the file in a dry run too.
RemoveFileAlways(on_disk, file_path, dry_run) ==
    IF on_disk[file_path] = "file"
    THEN [raised |-> FALSE, disk |-> [on_disk EXCEPT ![file_path] = "none"]]
    ELSE [raised |-> TRUE, disk |-> on_disk]

\* if not dry_run: os.remove(file_path). It raises when the path holds no
\* file or the file cannot be removed.
RemoveFile(on_disk, file_path, dry_run) ==
    IF dry_run
    THEN [raised |-> FALSE, disk |-> on_disk]
    ELSE IF on_disk[file_path] = "file"
    THEN [raised |-> FALSE, disk |-> [on_disk EXCEPT ![file_path] = "none"]]
    ELSE [raised |-> TRUE, disk |-> on_disk]

\* The bookkeeping of one file under result.details[category].
TrackDetails(details, category, file_path, file_size) ==
    LET old == Get(details, category, [count |-> 0, bytes |-> 0, files |-> <<>>])
    IN  DictPut(details, category,
                [count |-> old.count + 1,
                 bytes |-> old.bytes + file_size,
                 files |-> IF Len(old.files) < 10 THEN Append(old.files, file_path)
                           ELSE old.files])

\* The loop of execute from file k on, with the result and the disk so far.
RECURSIVE ExecuteLoop(_, _, _, _, _, _)
ExecuteLoop(config, files, dry_run, k, res, on_disk) ==
    IF k > Len(files)
    THEN [result |-> res, disk |-> on_disk]
    ELSE LET info == files[k]
             file_path == info.path
             file_size == info.size
             category == Get(info, "category", "unknown")
             compress == ShouldCompress(info) /\ Get(config, "compress_renders", FALSE)
             archive == ShouldArchive(info) /\ Get(config, "archive_to_cold_storage", FALSE)
             counted == [res EXCEPT
                            !.compressed_files = IF compress THEN @ + 1 ELSE @,
                            !.files_archived = IF archive THEN @ + 1 ELSE @]
             removed == RemoveFile(on_disk, file_path, dry_run)
             after == IF removed.raised
                      THEN [counted EXCEPT
                               !.error_message = IF @ = "" THEN "Error processing file" ELSE @,
                               !.success = FALSE]
                      ELSE [counted EXCEPT
                               !.files_removed = @ + 1,
                               !.bytes_saved = @ + file_size,
                               !.details = TrackDetails(@, category, file_path, file_size)]
         IN  ExecuteLoop(config, files, dry_run, k + 1, after, removed.disk)

CleanupInit ==
    /\ EngineIdle
    /\ ResolveIdle
    /\ StoreIdle
    /\ ApplyIdle
    /\ ScaleIdle
    /\ RetentionIdle
    /\ JobIdle
    /\ ConcIdle
    /\ disk \in DiskStates
    /\ \E config \in ExecutorConfigs :
          executor_config = IF config # EmptyDict THEN config
                            ELSE [compress_renders |-> TRUE, archive_to_cold_storage |-> TRUE,
                                  generate_report |-> TRUE]
    /\ \E files \in SeqsUpTo(CleanupFiles, MaxFiles), dry_run \in BOOLEAN :
          execute_args = [files |-> files, dry_run |-> dry_run, disk |-> disk]
    /\ execute_result = EmptyDict

\* executor.execute(files, dry_run=True)
ExecuteDryRun ==
    /\ execute_result = EmptyDict
    /\ execute_args.dry_run
    /\ LET done == ExecuteLoop(executor_config, execute_args.files, TRUE, 1,
                               NewCleanupResult, disk)
       IN  /\ execute_result' = done.result
           /\ disk' = done.disk
    /\ UNCHANGED <<executor_config, execute_args>>
    /\ UNCHANGED notCleanup

\* executor.execute(files, dry_run=False)
ExecuteForReal ==
    /\ execute_result = EmptyDict
    /\ ~execute_args.dry_run
    /\ LET done == ExecuteLoop(executor_config, execute_args.files, FALSE, 1,
                               NewCleanupResult, disk)
       IN  /\ execute_result' = done.result
           /\ disk' = done.disk
    /\ UNCHANGED <<executor_config, execute_args>>
    /\ UNCHANGED notCleanup

CleanupNext ==
    \/ ExecuteDryRun
    \/ ExecuteForReal

CleanupSpec == CleanupInit /\ [][CleanupNext]_vars

--------------------------------------------------------------------------
(* Properties of the pipeline *)

Ended == pc \in {"returned", "raised", "done"}

\* The operations whose apply begins with the video-stream check.
VideoOps == {"stabilize", "color_correct", "artifact_removal"}

\* The known names of the request, in order.
KnownNames == SelectSeq(operations, LAMBDA n : n \in KnownOps)

\* C1: process, called on an existing input file, never raises: it returns a
\* result with a report, and every operation that ended in error or failed has
\* its result in the report.
C1_ProcessNeverRaises ==
    /\ pc # "raised"
    /\ pc = "returned" =>
          \A k \in 1..Len(calls) :
              calls[k].result.status \in {"error", "failed"} =>
                  \E i \in 1..Len(result.metadata.operations) :
                      result.metadata.operations[i][1] = calls[k].op_name

\* C2: the known operations are dispatched in the order of the request, the
\* k-th receives as its input path the output path of the (k-1)-th (the
\* caller's file for the first), and the report's operation-result map lists
\* the dispatched operations in that same order.
C2_OrderPreserved ==
    /\ \A k \in 1..Len(calls) :
          /\ calls[k].op_name = KnownNames[k]
          /\ calls[k].input_path = IF k = 1 THEN InputPath ELSE calls[k - 1].output_path
    /\ pc = "returned" =>
          Keys(result.metadata.operations) = [k \in 1..Len(calls) |-> calls[k].op_name]

\* C3: once process has returned from a run that dispatched operations, the
\* returned output path names an existing file, the one the last dispatched
\* operation produced.
C3_OutputReadableAfterReturn ==
    (pc = "returned" /\ Len(calls) > 0) =>
        /\ Exists(fs, result.output_path)
        /\ fs[result.output_path] = calls[Len(calls)].output

\* C4: the output path handed to an operation differs from its input path and
\* holds no file written by an earlier operation of the run.
C4_FreshOutputPath ==
    \A k \in 1..Len(calls) :
        /\ calls[k].output_path # calls[k].input_path
        /\ \A j \in 1..(k - 1) :
              calls[j].output # NoFile => calls[j].output_path # calls[k].output_path

\* C5: when the run has ended, by return or by exception, nothing it created in
\* scratch space is left: not the temporary directory and its intermediate
\* files, not the sampled frames, not the stabilization transform data.
C5_ScratchReleased ==
    Ended =>
        /\ ~temp_dir
        /\ \A p \in TempPaths : ~Exists(fs, p)
        /\ scratch = {}

\* C6: after an operation has returned status failed, the next operation
\* receives the failed operation's input file as its input.
C6_FailedKeepsCursor ==
    \A k \in 1..(Len(calls) - 1) :
        calls[k].result.status = "failed" => calls[k + 1].input_path = calls[k].input_path

\* C7: when the probe of its input fails, Stabilize, ColorCorrect and
\* ArtifactRemoval report the step as skipped and leave a pass-through copy
\* of the input at the output path.
C7_ProbeFailureSkips ==
    \A k \in 1..Len(calls) :
        (calls[k].op_name \in VideoOps /\ calls[k].probe = "fail") =>
            /\ calls[k].result.status = "skipped"
            /\ calls[k].output # NoFile
            /\ calls[k].output = calls[k].input

\* C8: whenever the transform run of an operation has failed, the result is
\* error with the error detail and fallback = copy and the output file equals
\* the operation's input when the fallback copy succeeded, and the result is
\* failed when the fallback copy failed too; there is no third outcome.
C8_TransformFailureFallback ==
    \A k \in 1..Len(calls) :
        calls[k].filter = "fail" =>
            /\ calls[k].copy \in {"ok", "fail"}
            /\ calls[k].copy = "ok" =>
                  /\ calls[k].result.status = "error"
                  /\ "error" \in DOMAIN calls[k].result
                  /\ "fallback" \in DOMAIN calls[k].result
                  /\ calls[k].result.fallback = "copy"
                  /\ calls[k].output = calls[k].input
            /\ calls[k].copy = "fail" => calls[k].result.status = "failed"

\* C8's case: in one run, a transform has failed with its fallback copy made
\* and another has failed with its fallback copy failing too.
C8_Witness ==
    /\ \E k \in 1..Len(calls) :
          calls[k].filter = "fail" /\ calls[k].copy = "ok" /\ calls[k].input.kind = "video"
    /\ \E k \in 1..Len(calls) : calls[k].filter = "fail" /\ calls[k].copy = "fail"

C10_SceneAnalysisOnce ==
    LET wanted == \E i \in 1..Len(operations) : operations[i] \in {"denoise", "color_correct"}
    IN  /\ provider_calls <= 1
        /\ provider_calls = 1 => wanted
        /\ \A k \in 1..Len(calls) : calls[k].provider_calls = provider_calls
        /\ ~wanted => \A k \in 1..Len(calls) : calls[k].context = EmptyDict

\* C10's case: the provider has been called and two operations have been
\* dispatched since.
C10_Witness ==
    /\ provider_calls = 1
    /\ Len(calls) = 2
    /\ calls[1].context = CtxLow

\* What a logged call left behind, as the part of an outcome the log keeps.
Logged(c) ==
    [result |-> c.result, raised |-> c.raised, filter |-> c.filter, copy |-> c.copy,
     output |-> c.output]

\* The same part of what apply leaves behind when it is given op_context.
Replayed(c, op_context, run, copy) ==
    LET o == Apply(c.op_name, c.before, c.input_path, c.output_path, c.parameters,
                   op_context, run, copy)
    IN  [result |-> o.result, raised |-> o.raised, filter |-> o.filter, copy |-> o.copy,
         output |-> o.fs[c.output_path]]

\* C11: when scene analysis has failed (the context is error-tagged), the run
\* is not aborted by it (process raises only out of an operation or out of the
\* final rename), and every operation does what it does when given no context
\* at all: same result with the same applied parameters, same output.
C11_FailedAnalysisIsNoContext ==
    /\ pc = "raised" =>
          \/ Len(calls) > 0 /\ calls[Len(calls)].raised
          \/ idx > Len(operations)
    /\ \A k \in 1..Len(calls) :
          "error" \in DOMAIN calls[k].context =>
              \E run \in RunFates, copy \in CopyFates :
                  Logged(calls[k]) = Replayed(calls[k], EmptyDict, run, copy)

\* C11's case: after a failed scene analysis, a denoise and a color correction
\* have each transformed a video.
C11_Witness ==
    /\ "error" \in DOMAIN scene_analysis
    /\ \E k \in 1..Len(calls) :
          calls[k].op_name = "denoise" /\ calls[k].result.status = "success"
    /\ \E k \in 1..Len(calls) :
          calls[k].op_name = "color_correct" /\ calls[k].result.status = "success"

--------------------------------------------------------------------------
(* Properties of parameter resolution *)

\* C12: for every preset, every known operation O and every overrides map with
\* an entry for O, the resolved parameter set gives each key of overrides[O]
\* the override's value, and each key of the preset's entry for O that the
\* override does not name the preset's value.
C12_OverrideWinsPerKey ==
    \A i \in 1..Len(resolutions) :
        LET c == resolutions[i]
            O == c.operation_name
        IN  (c.passed /\ O \in KnownOps /\ O \in DOMAIN c.custom_params) =>
                /\ \A key \in DOMAIN c.custom_params[O] :
                      key \in DOMAIN c.params /\ c.params[key] = c.custom_params[O][key]
                /\ (c.preset \in DOMAIN presets /\ O \in DOMAIN presets[c.preset]) =>
                      \A key \in DOMAIN presets[c.preset][O] \ DOMAIN c.custom_params[O] :
                          key \in DOMAIN c.params /\ c.params[key] = presets[c.preset][O][key]

\* C14: for every built-in preset P and operation O, resolution with no
\* overrides (none passed, or an empty map) returns exactly the parameter set
\* stored under P[O], and the empty parameter set when P has no entry for O.
C14_ExactPresetWithoutOverrides ==
    \A i \in 1..Len(resolutions) :
        LET c == resolutions[i]
            O == c.operation_name
        IN  (c.preset \in DOMAIN presets /\ c.custom_params = EmptyDict) =>
                c.params = IF O \in DOMAIN presets[c.preset]
                           THEN presets[c.preset][O] ELSE EmptyDict

\* C14's case: preset web has been resolved for stabilize, which it does not
\* define, with no overrides passed, and a preset for an operation it defines
\* with an empty overrides map passed.
C14_Witness ==
    /\ \E i \in 1..Len(resolutions) :
          /\ resolutions[i].preset = "web"
          /\ resolutions[i].operation_name = "stabilize"
          /\ ~resolutions[i].passed
    /\ \E i \in 1..Len(resolutions) :
          /\ resolutions[i].preset = "heavy"
          /\ resolutions[i].operation_name = "artifact_removal"
          /\ resolutions[i].passed
          /\ resolutions[i].custom_params = EmptyDict

\* C15: for a preset identifier that is not a built-in, resolution raises no
\* error and returns what it returns for preset standard with the same
\* operation and overrides.
C15_UnknownPresetIsStandard ==
    \A i \in 1..Len(resolutions) :
        LET c == resolutions[i]
        IN  c.preset \notin DOMAIN presets =>
                /\ ~c.raised
                /\ c.params = GetOperationParameters(c.operation_name, "standard",
                                                     c.custom_params)

\* C15's case: an unknown preset has been resolved for a known operation
\* that the overrides passed name, and for one with no overrides passed.
C15_Witness ==
    /\ \E i \in 1..Len(resolutions) :
          /\ resolutions[i].preset \notin DOMAIN presets
          /\ resolutions[i].operation_name \in DOMAIN resolutions[i].custom_params
          /\ resolutions[i].params # presets["standard"][resolutions[i].operation_name]
    /\ \E i \in 1..Len(resolutions) :
          /\ resolutions[i].preset \notin DOMAIN presets
          /\ resolutions[i].operation_name \in KnownOps
          /\ ~resolutions[i].passed

\* C16: resolution is pure: calls with the same operation, preset and overrides
\* return equal results, no call changes the preset table or the caller's
\* overrides map, and a resolution without overrides made after others still
\* returns the preset's own values.
C16_ResolutionIsPure ==
    /\ \A i \in 1..Len(resolutions) :
          /\ resolutions[i].presets = presets
          /\ resolutions[i].passed => resolutions[i].after = resolutions[i].custom_params
    /\ \A i, j \in 1..Len(resolutions) :
          (/\ resolutions[i].operation_name = resolutions[j].operation_name
           /\ resolutions[i].preset = resolutions[j].preset
           /\ resolutions[i].passed = resolutions[j].passed)
              => resolutions[i].params = resolutions[j].params
    /\ \A j \in 2..Len(resolutions) :
          (~resolutions[j].passed /\ resolutions[j].preset \in DOMAIN presets
              /\ resolutions[j].operation_name \in DOMAIN presets[resolutions[j].preset]) =>
                 resolutions[j].params =
                     presets[resolutions[j].preset][resolutions[j].operation_name]

\* C16's case: the caller has resolved an operation its overrides name, the
\* merge adding and changing keys, and then the same operation under the same
\* preset again.
C16_Witness ==
    /\ Len(resolutions) = 2
    /\ resolutions[1].passed
    /\ resolutions[1].operation_name \in DOMAIN resolutions[1].custom_params
    /\ resolutions[1].preset \in DOMAIN presets
    /\ resolutions[1].operation_name \in DOMAIN presets[resolutions[1].preset]
    /\ resolutions[1].params # presets[resolutions[1].preset][resolutions[1].operation_name]
    /\ resolutions[2].operation_name = resolutions[1].operation_name
    /\ resolutions[2].preset = resolutions[1].preset

--------------------------------------------------------------------------
(* Properties of the preset store *)

\* C13: after any sequence of create_preset, update_preset and delete_preset
\* calls, with or without the remote backend, every built-in preset identifier
\* still exists and get_preset returns its original definition, and
\* update_preset and delete_preset return false for a built-in identifier.
C13_BuiltinsImmutable ==
    /\ \A b \in DOMAIN BuiltinPresets, remote \in RemoteFates :
          /\ GetPreset(b, remote).found
          /\ GetPreset(b, remote).data = BuiltinPresets[b]
    /\ (/\ store_returned # EmptyDict
        /\ store_returned.call \in {"update_preset", "delete_preset"}
        /\ store_returned.preset_id \in DOMAIN BuiltinPresets)
           => store_returned.value = FALSE

--------------------------------------------------------------------------
(* Properties of the operations' parameter adjustments and filter scales *)

\* apply has been called on op_name and has run its transform, whatever
\* came of the run.
Ran(op_name) ==
    /\ apply_args.op_name = op_name
    /\ apply_result # EmptyDict
    /\ apply_ran # EmptyDict

\* What the context given to apply reports in a section, "" when it has no
\* such section.
Reported(section, key) ==
    IF section \in DOMAIN apply_args.context
    THEN Get(apply_args.context[section], key, "")
    ELSE ""

\* The spatial and temporal strengths of a denoise filter chain, 0 for a
\* filter that was left out.
SpatialUsed(filters) ==
    IF "nlmeans" \in DOMAIN filters THEN filters.nlmeans
    ELSE IF "hqdn3d" \in DOMAIN filters THEN filters.hqdn3d[1] \div 4
    ELSE 0

TemporalUsed(filters) == Get(filters, "tnlmeans", 0)

\* C17: whatever strength and crop_margin are given, the denoise strength
\* after the high-noise adjustment is at most 1.0, and the stabilize strength
\* and crop_margin after the high-shake adjustment are at most 1.0 and 0.25.
C17_AdjustmentsClamped ==
    /\ (Ran("denoise") /\ Reported("noise_assessment", "level") = "high") =>
          apply_ran.strength <= 1000
    /\ (Ran("stabilize") /\ Reported("motion_assessment", "camera_shake") = "high") =>
          /\ apply_ran.strength <= 1000
          /\ apply_ran.crop_margin <= 250

\* C17's case: stabilize, told of high camera shake, was given a strength and
\* a crop_margin whose scaled values pass the caps.
C17_Witness ==
    /\ Ran("stabilize")
    /\ Reported("motion_assessment", "camera_shake") = "high"
    /\ apply_args.parameters.strength * 13 > 10000
    /\ apply_args.parameters.crop_margin * 12 > 2500

\* C18 as stated: for a strength in [0,1] the denoise video filter uses the
\* spatial strength nearest to strength x 10 and the temporal strength nearest
\* to strength x 7 (at a tie, either neighbour).
C18_DenoiseStrengthsRounded ==
    (Ran("denoise") /\ apply_ran.strength \in 0..1000) =>
        LET strength == apply_ran.strength
            filters  == apply_ran.applied_filters
        IN  /\ SpatialUsed(filters) * 1000 - strength * 10 \in -500..500
            /\ TemporalUsed(filters) * 1000 - strength * 7 \in -500..500

\* C18 amended: for a strength in [0,1] the denoise video filter uses the
\* integer part of strength x 10 as spatial strength and the integer part of
\* strength x 7 as temporal strength.
C18_DenoiseStrengthsTruncated ==
    (Ran("denoise") /\ apply_ran.strength \in 0..1000) =>
        LET strength == apply_ran.strength
            filters  == apply_ran.applied_filters
        IN  /\ strength * 10 - SpatialUsed(filters) * 1000 \in 0..999
            /\ strength * 7 - TemporalUsed(filters) * 1000 \in 0..999

\* C18's case: a denoise ran with a strength whose tenfold and sevenfold both
\* lie in the upper half between two integers.
C18_Witness ==
    /\ Ran("denoise")
    /\ apply_ran.strength \in 0..1000
    /\ (apply_ran.strength * 10) % 1000 > 500
    /\ (apply_ran.strength * 7) % 1000 > 500

\* C19: for a strength in [0,1], as resolved or as adjusted, the stabilize
\* detection pass uses a shakiness in 1..10 and the transform pass a smoothing
\* in 1..100.
C19_VidstabScalesInRange ==
    (/\ Ran("stabilize")
     /\ apply_ran.method = "vidstab"
     /\ apply_ran.strength \in 0..1000) =>
        /\ apply_ran.shakiness \in 1..10
        /\ apply_ran.smoothing \in 1..100

\* C20 as stated: told of a desaturated color cast, color correction applies
\* max(s, s x 1.2) for the saturation s it was given; of an oversaturated one,
\* min(s, s x 0.8); of any other, or of none, s.
C20_SaturationRelative ==
    Ran("color_correct") =>
        LET saturation == apply_args.parameters.saturation
            color_cast == Reported("color_characteristics", "color_cast")
        IN  apply_ran.saturation =
                IF color_cast = "desaturated"
                THEN Max(saturation, (saturation * 12) \div 10)
                ELSE IF color_cast = "oversaturated"
                THEN Min(saturation, (saturation * 8) \div 10)
                ELSE saturation

\* C20 amended: told of a desaturated color cast, color correction applies
\* max(1.0, s x 1.2); of an oversaturated one, min(1.0, s x 0.8); of any
\* other, or of none, s.
C20_SaturationAgainstOne ==
    Ran("color_correct") =>
        LET saturation == apply_args.parameters.saturation
            color_cast == Reported("color_characteristics", "color_cast")
        IN  apply_ran.saturation =
                IF color_cast = "desaturated"
                THEN Max(1000, (saturation * 12) \div 10)
                ELSE IF color_cast = "oversaturated"
                THEN Min(1000, (saturation * 8) \div 10)
                ELSE saturation

\* C20's case: color correction, told of a desaturated cast, was given a
\* saturation whose 1.2-fold is below 1.0.
C20_Witness ==
    /\ Ran("color_correct")
    /\ Reported("color_characteristics", "color_cast") = "desaturated"
    /\ apply_args.parameters.saturation \in 1..800

--------------------------------------------------------------------------
(* Properties of whole runs: scenario, report, input file *)

\* The request of the scenario: preset "standard", operations ["denoise"],
\* no overrides, and the call of Denoise on a video.
StandardDenoise(c) ==
    /\ preset = "standard"
    /\ operations = <<"denoise">>
    /\ parameters = EmptyDict
    /\ c.op_name = "denoise"
    /\ c.probe = "video"

\* C21: with preset "standard", operations ["denoise"], no overrides and a
\* video input, a Denoise that is given no noise assessment runs with strength
\* 0.5, preserve_details true, temporal true, spatial strength 5 and temporal
\* strength 3, and reports these parameters when it succeeds; one that is told
\* of noise level "high" runs with strength 0.75 and spatial strength 7.
C21_StandardDenoiseScenario ==
    \A i \in 1..Len(calls) :
        LET c == calls[i]
        IN  StandardDenoise(c) =>
              /\ "noise_assessment" \notin DOMAIN c.context =>
                    /\ c.ran.strength = 500
                    /\ c.ran.preserve_details = TRUE
                    /\ c.ran.temporal = TRUE
                    /\ SpatialUsed(c.ran.applied_filters) = 5
                    /\ TemporalUsed(c.ran.applied_filters) = 3
                    /\ c.result.status = "success" => c.result.parameters = c.ran
              /\ ("noise_assessment" \in DOMAIN c.context
                    /\ c.context.noise_assessment.level = "high") =>
                    /\ c.ran.strength = 750
                    /\ SpatialUsed(c.ran.applied_filters) = 7
                    /\ c.result.status = "success" => c.result.parameters = c.ran

\* C21's case: the scenario's run has returned a report whose Denoise entry
\* succeeded under a context of noise level "high".
C21_Witness ==
    /\ pc = "returned"
    /\ Len(calls) = 1
    /\ StandardDenoise(calls[1])
    /\ calls[1].context = CtxHigh
    /\ calls[1].result.status = "success"
    /\ result.metadata.operations = <<<<"denoise", calls[1].result>>>>

\* What a probe of the caller's input file answered when the run began.
InputKind == IF "error" \in DOMAIN file_info THEN "bad" ELSE file_info.streams

\* C23: the preset field of the report process returns is the identifier of
\* the preset whose table the run's parameters were resolved from; for an
\* unknown requested preset that is the default preset.
C23_ReportNamesPresetUsed ==
    pc = "returned" =>
        \A k \in 1..Len(calls) : result.metadata.preset = calls[k].preset_used

\* C27: when process has ended, by return or by exception, the caller's input
\* file is at its path with the content it had when the run began, whatever
\* the operations list was.
C27_InputFileUntouched ==
    (pc \in {"returned", "raised", "done"} /\ file_info # EmptyDict) =>
        fs[InputPath] = [kind |-> InputKind, ver |-> <<>>]

\* C29: the report process returns holds one result for each operation
\* invocation of the run: as many entries as the operations list has known
\* names, and every invocation's own result among them.
C29_OneResultPerInvocation ==
    pc = "returned" =>
        /\ Len(result.metadata.operations) = Len(KnownNames)
        /\ \A k \in 1..Len(calls) :
              \E e \in 1..Len(result.metadata.operations) :
                  result.metadata.operations[e] = <<calls[k].op_name, calls[k].result>>

--------------------------------------------------------------------------
(* Properties of the Denoise filter scales *)

\* C22: over strengths in [0,1], the spatial strength of the Denoise video
\* filter lies in 0..10 and the temporal strength in 0..7, the audio noise
\* reduction lies in [0, 0.3], and none of the three decreases when the
\* strength grows.
C22_DenoiseScalesMonotonic ==
    \A i, j \in 1..Len(scale_log) :
        LET a == scale_log[i]
            b == scale_log[j]
        IN  (a.strength \in 0..1000 /\ b.strength \in 0..1000 /\ a.strength <= b.strength) =>
              IF scale_args.media_type = "video"
              THEN /\ SpatialUsed(a.applied_filters) \in 0..10
                   /\ SpatialUsed(a.applied_filters) <= SpatialUsed(b.applied_filters)
                   /\ a.temporal =>
                         /\ TemporalUsed(a.applied_filters) \in 0..7
                         /\ TemporalUsed(a.applied_filters) <= TemporalUsed(b.applied_filters)
              ELSE /\ a.applied_filter.afftdn \in 0..300
                   /\ a.applied_filter.afftdn <= b.applied_filter.afftdn

\* C22's case: two video calls with temporal denoising whose strengths lie in
\* [0,1], the second the larger, and whose scales differ.
C22_Witness ==
    /\ Len(scale_log) = 2
    /\ scale_args.media_type = "video"
    /\ scale_log[1].temporal
    /\ scale_log[1].strength < scale_log[2].strength
    /\ scale_log[2].strength <= 1000
    /\ SpatialUsed(scale_log[1].applied_filters) < SpatialUsed(scale_log[2].applied_filters)
    /\ TemporalUsed(scale_log[1].applied_filters) < TemporalUsed(scale_log[2].applied_filters)

--------------------------------------------------------------------------
(* Properties of the retention policy *)

\* The retention period, in days, the policy holds for a file's category
\* (logs, intermediates or backups); 0 when it holds none.
PeriodOf(info) == Get(policy_config, CategorizeFile(info), 0)

\* The file is older than a retention period of that many days.
OlderThan(info, days) == CurrentTime - info.modified_time > days * DaySeconds

\* A file info as the scanner made it, without what apply_policy adds.
Scanned(info) ==
    [k \in DOMAIN info \ {"category", "retention_days"} |-> info[k]]

\* C25: apply_policy returns, in input order, exactly the files older than
\* the retention period of their category; a file within its period, or of a
\* category whose period is 0 days or not configured, is not returned.
C25_ReturnsExpiredFilesInOrder ==
    policy_returned.done =>
        /\ [i \in 1..Len(policy_returned.files) |-> Scanned(policy_returned.files[i])]
              = SelectSeq(policy_scanned,
                          LAMBDA f : PeriodOf(f) > 0 /\ OlderThan(f, PeriodOf(f)))
        /\ \A i \in 1..Len(policy_returned.files) :
              LET f == Scanned(policy_returned.files[i])
              IN  /\ CategorizeFile(f) \in DOMAIN policy_config
                  /\ policy_config[CategorizeFile(f)] # 0
                  /\ OlderThan(f, policy_config[CategorizeFile(f)])

\* C25's case: apply_policy was given a file exactly as old as its period
\* before an older one, returned one of two files, and the policy holds a
\* category with no period.
C25_Witness ==
    /\ policy_returned.done
    /\ Len(policy_scanned) = 2
    /\ Len(policy_returned.files) = 1
    /\ PeriodOf(policy_scanned[1]) > 0
    /\ CurrentTime - policy_scanned[1].modified_time = PeriodOf(policy_scanned[1]) * DaySeconds
    /\ Scanned(policy_returned.files[1]) = policy_scanned[2]
    /\ DOMAIN policy_config # {"logs", "intermediates", "backups"}

--------------------------------------------------------------------------
(* Properties of the cleanup executor *)

\* The sum of the sizes of the files of a list.
RECURSIVE TotalSize(_)
TotalSize(files) == IF files = <<>> THEN 0 ELSE Head(files).size + TotalSize(Tail(files))

\* C26: execute with dry_run = true leaves the disk as it was and returns a
\* result with success true, files_removed the number of files given and
\* bytes_saved the sum of their sizes.
C26_DryRunRemovesNothing ==
    (execute_result # EmptyDict /\ execute_args.dry_run) =>
        /\ disk = execute_args.disk
        /\ execute_result.success
        /\ execute_result.files_removed = Len(execute_args.files)
        /\ execute_result.bytes_saved = TotalSize(execute_args.files)

\* C26's case: a dry run over two files of different sizes, one on disk and
\* one that a real run could not remove.
C26_Witness ==
    /\ execute_result # EmptyDict
    /\ execute_args.dry_run
    /\ Len(execute_args.files) = 2
    /\ execute_args.files[1].size # execute_args.files[2].size
    /\ disk[execute_args.files[1].path] = "file"
    /\ disk[execute_args.files[2].path] # "file"

--------------------------------------------------------------------------
(* Properties of the job's status *)

\* C28: however process_job and the cancel requests for its job interleave,
\* a status of completed, failed or cancelled never changes again.
C28_TerminalStatusIsFinal ==
    [][(job_status \in {"completed", "failed", "cancelled"}) => (job_status' = job_status)]_vars

--------------------------------------------------------------------------
(* Properties of the preset store and the pipeline together *)

\* C30: for every preset identifier the store lists or returns, built-in or
\* created, process called with it resolves the parameters from that preset
\* and not from the fallback preset.
C30_StoreAndPipelineAgree ==
    \A k \in 1..Len(resolutions) :
        resolutions[k].resolved_from = resolutions[k].preset

--------------------------------------------------------------------------
(* Properties of process calls running at once *)

\* C24: process calls running at once, also when given the same input file
\* and the same operations, never write, rename or delete a path that another
\* call reads or writes, and each returns the result it would return when run
\* alone.
C24_InvocationsIsolated ==
    /\ \A i \in DOMAIN conc_writes : \A j \in DOMAIN conc_writes \ {i} :
          conc_writes[i] \cap (conc_reads[j] \cup conc_writes[j]) = {}
    /\ \A i \in DOMAIN conc_pc :
          conc_pc[i] \in {"returned", "raised"} => conc_result[i] = RunAlone(i, conc_args)

====
